---- MODULE Spec2Model ----
(***************************************************************************)
(* A model of cloudvolume/storage.py: the Storage / SimpleStorage facades, *)
(* the four backend interfaces (FileInterface, GoogleCloudStorageInterface,*)
(* S3Interface, HttpInterface), the tenacity retry wrapper and the         *)
(* ThreadedQueue worker pool the Storage facade inherits from.             *)
(***************************************************************************)
EXTENDS Integers, Sequences, FiniteSets, TLC

\* ------------------------------------------------------------------ bounds
\* Longest fault schedule: the consecutive failing requests about one path.
\* The retry budget is 7 attempts, and a pipelined HTTP request falls back to a
\* retried one after its first failure, so 8 failures exhaust every call.
MaxFaults == 8
\* Longest batch handed to get_files / files_exist.
MaxBatch == 3
\* Largest concurrent-stream limit of the HTTP/2 connection.
MaxStreams == 2
\* Largest worker count a facade is constructed with.
MaxThreads == 2
\* Most tasks the queue holds at once.
MaxQueue == 2
\* Most errors the error queue holds at once.
MaxErrors == 1

\* ------------------------------------------------------- program constants
MAX_RETRIES == 7

\* -------------------------------------------------------------------- data
Protocols == {"file", "gs", "s3", "http"}
Paths == {"a", "b"}
Suffixes == {"", ".gz"}
Keys == Paths \X Suffixes

\* A byte string: raw names the payload, z counts the gzip layers around it.
Bytes(r) == [z |-> 0, raw |-> r]
Contents == {Bytes("x"), Bytes("y")}
Empty == Bytes("")

\* compression.compress(content, method): gzip wraps, no method is the identity
compress(content, method) ==
  IF method = "gzip" THEN [content EXCEPT !.z = @ + 1] ELSE content

\* compression.decompress(content, encoding): gunzip of a gzip stream, a
\* DecompressionError for bytes that are no gzip stream, identity without encoding
CanDecompress(content, encoding) == encoding = "gzip" => content.z > 0
decompress(content, encoding) ==
  IF encoding = "gzip" THEN [content EXCEPT !.z = @ - 1] ELSE content

\* A stored object (a file, a blob, an S3 object, a served resource).
Absent == [present |-> FALSE, body |-> Empty, enc |-> ""]
Obj(body, enc) == [present |-> TRUE, body |-> body, enc |-> enc]
EmptyStore == [k \in Keys |-> Absent]

\* --------------------------------------------------------------- failures
\* A fault schedule: the first n requests about a path fail with `kind`, the
\* later ones get the store's true answer.
NetFaultKinds == {"ServerError", "ClientError", "Forbidden"}
FaultKinds(protocol) == IF protocol = "file" THEN {"IOError"} ELSE NetFaultKinds
Schedules(protocol) == [n : 0..MaxFaults, kind : FaultKinds(protocol)]
NoFault(protocol) ==
  [n |-> 0, kind |-> CHOOSE k \in FaultKinds(protocol) : TRUE]
FaultAt(sched, k) == IF k <= sched.n THEN sched.kind ELSE "none"
\* the schedule as seen after `used` requests have been answered
Shift(sched, used) ==
  [sched EXCEPT !.n = IF @ > used THEN @ - used ELSE 0]

\* exceptions.from_http_status: the error class of a response status
from_http_status(status) ==
  CASE status = 404 -> "NotFound"
    [] status = 403 -> "Forbidden"
    [] status >= 500 -> "ServerError"
    [] status >= 400 -> "ClientError"
    [] OTHER -> "none"
\* isinstance(err, HTTPClientError): NotFound and Forbidden are client errors
IsHTTPClientError(err) == err \in {"ClientError", "NotFound", "Forbidden"}
IsHTTPServerError(err) == err = "ServerError"

\* The outcome of one call: what it raised (<<>>: nothing), the bytes it
\* returned (<<>>: None), the boolean it returned, the store it left, the
\* number of attempts the retry wrapper made.
Outcome(st, raised, value, flag) ==
  [st |-> st, raised |-> raised, value |-> value, flag |-> flag, attempts |-> 1]
Return(st, value) == Outcome(st, <<>>, value, FALSE)
ReturnBool(st, flag) == Outcome(st, <<>>, <<>>, flag)
Raise(st, err) == Outcome(st, <<err>>, <<>>, FALSE)

Arg(content, method) == [content |-> content, compress |-> method]
NoArg == Arg(Empty, "")

VARIABLES
  protocol,      \* the protocol of the facade's layer path
  n_threads,     \* the worker count the facade was constructed with
  store,         \* the backend's objects, by key
  max_streams,   \* the HTTP/2 connection's concurrent-stream limit
  conn_streams,  \* streams of the connection requested and not yet consumed
  lastPut,       \* per path, the content of the last completed put (<<>>: none)
  ret,           \* the last call the caller saw complete
  threads,       \* len(self._threads): the live workers
  queue,         \* self._queue: the tasks not yet taken
  work,          \* per worker, the task it is executing (<<>>: none)
  error_queue,   \* self._error_queue
  pc,            \* where the caller is: "idle", in "wait", in "kill"
  call,          \* the batched call the caller is inside
  thunk_results, \* the `results` list / dict the thunks of that call fill
  pool,          \* the free list of the connection pool of the layer's bucket
  issued,        \* the number of handles that pool has constructed
  facades,       \* per facade object, its class, life cycle and _interface
  interfaces,    \* per facade and worker thread, the worker's own interface
  objects,       \* the names stored under the layer, as the backend has them
  sorting,       \* a call of _radix_sort: its argument, then what it gave
  listing,       \* the generator of the last list_files call
  decoding       \* a call of decode_label / decode_chunk_id: label, then fields

storage_vars == <<protocol, n_threads, store, max_streams, conn_streams,
                  lastPut, ret, threads, queue, work, error_queue, pc, call,
                  thunk_results>>
pool_vars == <<pool, issued, facades, interfaces>>
listing_vars == <<objects, listing, sorting>>
graphene_vars == <<decoding>>
vars == <<storage_vars, pool_vars, listing_vars, graphene_vars>>

\* ----------------------------------------------------------- FileInterface
FileInterface_put_file(st, P, arg, sched, k) ==
  LET key == <<P, IF arg.compress # "" THEN ".gz" ELSE "">>
      written == [st EXCEPT ![key] = Obj(arg.content, "")]
  IN  IF FaultAt(sched, k) # "IOError"
        THEN Return(written, <<>>)
      ELSE IF FaultAt(sched, k + 1) # "IOError"
        THEN [Return(written, <<>>) EXCEPT !.attempts = 2]
      ELSE [Raise(st, "IOError") EXCEPT !.attempts = 2]

FileInterface_get_file(st, P, sched, k) ==
  LET compressed == st[<<P, ".gz">>].present
      key == <<P, IF compressed THEN ".gz" ELSE "">>
      encoding == IF compressed THEN "gzip" ELSE ""
  IN  IF ~st[key].present \/ FaultAt(sched, k) = "IOError"
        THEN Return(st, <<>>)
      ELSE IF ~CanDecompress(st[key].body, encoding)
        THEN Raise(st, "DecompressionError")
      ELSE Return(st, <<decompress(st[key].body, encoding)>>)

FileInterface_exists(st, P) ==
  ReturnBool(st, st[<<P, "">>].present \/ st[<<P, ".gz">>].present)

FileInterface_delete_file(st, P) ==
  IF st[<<P, "">>].present
    THEN Return([st EXCEPT ![<<P, "">>] = Absent], <<>>)
  ELSE IF st[<<P, ".gz">>].present
    THEN Return([st EXCEPT ![<<P, ".gz">>] = Absent], <<>>)
  ELSE Return(st, <<>>)

\* ------------------------------------------- GoogleCloudStorageInterface
GoogleCloudStorageInterface_put_file(st, P, arg, fault) ==
  IF fault # "none" THEN Raise(st, fault)
  ELSE Return([st EXCEPT ![<<P, "">>] =
                 Obj(arg.content, IF arg.compress # "" THEN "gzip" ELSE "")],
              <<>>)

GoogleCloudStorageInterface_get_file(st, P, fault) ==
  LET blob == st[<<P, "">>]
  IN  IF fault # "none" THEN Raise(st, fault)
      ELSE IF ~blob.present THEN Return(st, <<>>)
      ELSE IF ~CanDecompress(blob.body, blob.enc)
        THEN Raise(st, "DecompressionError")
      ELSE Return(st, <<decompress(blob.body, blob.enc)>>)

GoogleCloudStorageInterface_exists(st, P, fault) ==
  IF fault # "none" THEN Raise(st, fault)
  ELSE ReturnBool(st, st[<<P, "">>].present)

\* a delete_file without `except google.cloud.exceptions.NotFound: pass`
GoogleCloudStorageInterface_delete_file_strict(st, P, fault) ==
  IF fault # "none" THEN Raise(st, fault)
  ELSE IF ~st[<<P, "">>].present THEN Raise(st, "NotFound")
  ELSE Return([st EXCEPT ![<<P, "">>] = Absent], <<>>)

\* blob.delete(); the NotFound of a missing blob is caught and dropped
GoogleCloudStorageInterface_delete_file(st, P, fault) ==
  IF fault # "none" THEN Raise(st, fault)
  ELSE Return([st EXCEPT ![<<P, "">>] = Absent], <<>>)

\* ------------------------------------------------------------ S3Interface
S3Interface_put_file(st, P, arg, fault) ==
  IF fault # "none" THEN Raise(st, fault)
  ELSE Return([st EXCEPT ![<<P, "">>] =
                 Obj(arg.content, IF arg.compress # "" THEN "gzip" ELSE "")],
              <<>>)

S3Interface_get_file(st, P, fault) ==
  LET resp == st[<<P, "">>]
  IN  IF fault # "none" THEN Raise(st, fault)
      ELSE IF ~resp.present THEN Return(st, <<>>)
      ELSE IF ~CanDecompress(resp.body, resp.enc)
        THEN Raise(st, "DecompressionError")
      ELSE Return(st, <<decompress(resp.body, resp.enc)>>)

S3Interface_exists(st, P, fault) ==
  IF fault # "none" THEN Raise(st, fault)
  ELSE ReturnBool(st, st[<<P, "">>].present)

S3Interface_delete_file(st, P, fault) ==
  IF fault # "none" THEN Raise(st, fault)
  ELSE Return([st EXCEPT ![<<P, "">>] = Absent], <<>>)

\* ---------------------------------------------------------- HttpInterface
\* The status the server answers a request about P with.
HttpStatus(st, P, fault) ==
  CASE fault = "ServerError" -> 500
    [] fault = "ClientError" -> 400
    [] fault = "Forbidden" -> 403
    [] OTHER -> IF st[<<P, "">>].present THEN 200 ELSE 404

HttpInterface_put_file(st) == Raise(st, "NotImplementedError")
HttpInterface_delete_file(st) == Raise(st, "NotImplementedError")

\* `busy` streams of the connection are open when the request is made
HttpInterface_get_file(st, P, fault, busy) ==
  LET err == from_http_status(HttpStatus(st, P, fault))
  IN  IF busy >= max_streams THEN Raise(st, "TooManyStreamsError")
      ELSE IF IsHTTPServerError(err) \/ IsHTTPClientError(err)
        THEN Raise(st, err)
      ELSE Return(st, <<st[<<P, "">>].body>>)

HttpInterface_exists(st, P, fault, busy) ==
  LET err == from_http_status(HttpStatus(st, P, fault))
  IN  IF busy >= max_streams THEN Raise(st, "TooManyStreamsError")
      ELSE IF err \in {"NotFound", "Forbidden"} THEN ReturnBool(st, FALSE)
      ELSE IF IsHTTPServerError(err) \/ IsHTTPClientError(err)
        THEN Raise(st, err)
      ELSE ReturnBool(st, TRUE)

\* ------------------------------------------------------------------ retry
\* The decorator each interface method carries: "any" is the bare @retry
\* (tenacity retries on every exception), "server" is
\* @retry(retry=retry_if_exception_type(HTTPServerError)), "none" is no
\* decorator.
RetryPolicy(proto, op) ==
  CASE proto \in {"gs", "s3"} /\ op \in {"put", "get", "delete"} -> "any"
    [] proto = "http" /\ op \in {"get", "exists"} -> "server"
    [] OTHER -> "none"

\* One execution of the undecorated method body; the k-th request about P.
Attempt(proto, op, st, P, arg, sched, k, busy) ==
  LET fault == FaultAt(sched, k)
  IN  CASE proto = "file" /\ op = "put" -> FileInterface_put_file(st, P, arg, sched, k)
        [] proto = "file" /\ op = "get" -> FileInterface_get_file(st, P, sched, k)
        [] proto = "file" /\ op = "exists" -> FileInterface_exists(st, P)
        [] proto = "file" /\ op = "delete" -> FileInterface_delete_file(st, P)
        [] proto = "gs" /\ op = "put" -> GoogleCloudStorageInterface_put_file(st, P, arg, fault)
        [] proto = "gs" /\ op = "get" -> GoogleCloudStorageInterface_get_file(st, P, fault)
        [] proto = "gs" /\ op = "exists" -> GoogleCloudStorageInterface_exists(st, P, fault)
        [] proto = "gs" /\ op = "delete" -> GoogleCloudStorageInterface_delete_file(st, P, fault)
        [] proto = "s3" /\ op = "put" -> S3Interface_put_file(st, P, arg, fault)
        [] proto = "s3" /\ op = "get" -> S3Interface_get_file(st, P, fault)
        [] proto = "s3" /\ op = "exists" -> S3Interface_exists(st, P, fault)
        [] proto = "s3" /\ op = "delete" -> S3Interface_delete_file(st, P, fault)
        [] proto = "http" /\ op = "put" -> HttpInterface_put_file(st)
        [] proto = "http" /\ op = "get" -> HttpInterface_get_file(st, P, fault, busy)
        [] proto = "http" /\ op = "exists" -> HttpInterface_exists(st, P, fault, busy)
        [] proto = "http" /\ op = "delete" -> HttpInterface_delete_file(st)

\* tenacity's predicate: is this exception retried under the policy
ShouldRetry(policy, err) ==
  CASE policy = "any" -> TRUE
    [] policy = "server" -> IsHTTPServerError(err)
    [] OTHER -> FALSE

\* a budget one attempt short
stop_after_attempt_short(attempt_number) == attempt_number >= MAX_RETRIES - 1
\* stop_after_attempt(MAX_RETRIES)
stop_after_attempt(attempt_number) == attempt_number >= MAX_RETRIES

\* retry = partial(tenacity.retry, reraise=True, stop=..., wait=...): call,
\* and call again while the exception is retried and the stop is not reached;
\* then re-raise the last exception.
RECURSIVE retry(_, _, _, _, _, _, _, _)
retry(proto, op, st, P, arg, sched, attempt_number, busy) ==
  LET out == Attempt(proto, op, st, P, arg, sched, attempt_number, busy)
      done == [out EXCEPT !.attempts = attempt_number]
  IN  IF out.raised = <<>> THEN done
      ELSE IF ~ShouldRetry(RetryPolicy(proto, op), out.raised[1]) THEN done
      ELSE IF stop_after_attempt(attempt_number) THEN done
      ELSE retry(proto, op, st, P, arg, sched, attempt_number + 1, busy)

\* An interface method as its callers see it: decorated or not.
Call(proto, op, st, P, arg, sched, busy) ==
  IF RetryPolicy(proto, op) = "none"
    THEN Attempt(proto, op, st, P, arg, sched, 1, busy)
    ELSE retry(proto, op, st, P, arg, sched, 1, busy)

\* ------------------------------------------------------ batched interface
\* One entry of get_files' result list.
FileResult(path, out) ==
  [filename |-> path, content |-> out.value, error |-> out.raised]

\* What a batched interface call hands back: the exception it raised (<<>>:
\* none), the FileResult list, the existence dict (a value is "True", "False"
\* or "None"), the streams it leaves open on the HTTP connection, and `sent`,
\* the requests it made of the backend, in order.
Batch(raised, results, emap, open) ==
  [raised |-> raised, results |-> results, emap |-> emap, open |-> open,
   sent |-> <<>>]
Logged(b, sent) == [b EXCEPT !.sent = sent]
\* The requests one call of a single-file method makes for `path`: one per
\* attempt, each naming the one path it is about.
Requests(path, out) == [k \in 1..out.attempts |-> <<path>>]
EmptyMap == [p \in {} |-> "None"]
Bool(b) == IF b THEN "True" ELSE "False"
\* dict item assignment
SetItem(d, key, v) ==
  [x \in DOMAIN d \cup {key} |-> IF x = key THEN v ELSE d[x]]
\* {path: None for path in file_paths}
NoneMap(file_paths) ==
  [p \in {file_paths[i] : i \in 1..Len(file_paths)} |-> "None"]

\* a get_files that lets the first failing fetch leave the loop
RECURSIVE get_files_failfast(_, _, _, _, _, _)
get_files_failfast(proto, st, file_paths, faults, i, results) ==
  IF i > Len(file_paths) THEN Batch(<<>>, results, EmptyMap, 0)
  ELSE LET path == file_paths[i]
           out == Call(proto, "get", st, path, NoArg, faults[path], 0)
       IN  IF out.raised # <<>> THEN Batch(out.raised, <<>>, EmptyMap, 0)
           ELSE get_files_failfast(proto, st, file_paths, faults, i + 1,
                                   Append(results, FileResult(path, out)))

\* FileInterface / GoogleCloudStorageInterface / S3Interface .get_files: the
\* loop `for path in file_paths` from index i on.
RECURSIVE get_files(_, _, _, _, _, _)
get_files(proto, st, file_paths, faults, i, results) ==
  IF i > Len(file_paths) THEN Batch(<<>>, results, EmptyMap, 0)
  ELSE LET path == file_paths[i]
           out == Call(proto, "get", st, path, NoArg, faults[path], 0)
       IN  get_files(proto, st, file_paths, faults, i + 1,
                     Append(results, FileResult(path, out)))

\* a files_exist that reads a failed check as False and goes on
RECURSIVE files_exist_swallow(_, _, _, _, _, _, _)
files_exist_swallow(proto, st, file_paths, faults, i, result, sent) ==
  IF i > Len(file_paths) THEN Logged(Batch(<<>>, <<>>, result, 0), sent)
  ELSE LET path == file_paths[i]
           out == Call(proto, "exists", st, path, NoArg, faults[path], 0)
       IN  files_exist_swallow(proto, st, file_paths, faults, i + 1,
                               SetItem(result, path,
                                       Bool(out.raised = <<>> /\ out.flag)),
                               sent \o Requests(path, out))

\* FileInterface / S3Interface .files_exist: the dict comprehension
\* {path: self.exists(path) for path in file_paths}, which an exception of
\* exists leaves.
RECURSIVE files_exist(_, _, _, _, _, _, _)
files_exist(proto, st, file_paths, faults, i, result, sent) ==
  IF i > Len(file_paths) THEN Logged(Batch(<<>>, <<>>, result, 0), sent)
  ELSE LET path == file_paths[i]
           out == Call(proto, "exists", st, path, NoArg, faults[path], 0)
           reqs == sent \o Requests(path, out)
       IN  IF out.raised # <<>>
             THEN Logged(Batch(out.raised, <<>>, EmptyMap, 0), reqs)
           ELSE files_exist(proto, st, file_paths, faults, i + 1,
                            SetItem(result, path, Bool(out.flag)), reqs)

\* Batch._MAX_BATCH_SIZE of the cloud SDK, scaled down.
MAX_BATCH_SIZE == 2

\* The sub-response status of one get_blob inside a client.batch().
BatchStatus(st, P, fault) ==
  CASE fault = "ServerError" -> 500
    [] fault = "ClientError" -> 400
    [] fault = "Forbidden" -> 403
    [] OTHER -> IF st[<<P, "">>].present THEN 200 ELSE 404

\* The exception Batch.__exit__ raises once every future is populated: that of
\* the first sub-response that is no 2xx, "none" without one.
RECURSIVE BatchError(_, _, _, _)
BatchError(st, chunk, faults, j) ==
  IF j > Len(chunk) THEN "none"
  ELSE LET status == BatchStatus(st, chunk[j], FaultAt(faults[chunk[j]], 1))
       IN  IF status >= 200 /\ status < 300
             THEN BatchError(st, chunk, faults, j + 1)
             ELSE from_http_status(status)

\* result[file_path] = isinstance(blob._properties, dict) for the blobs of
\* one batch: a 2xx sub-response populated the future
RECURSIVE BatchBlobs(_, _, _, _, _)
BatchBlobs(st, chunk, faults, j, result) ==
  IF j > Len(chunk) THEN result
  ELSE LET status == BatchStatus(st, chunk[j], FaultAt(faults[chunk[j]], 1))
       IN  BatchBlobs(st, chunk, faults, j + 1,
                      SetItem(result, chunk[j],
                              Bool(status >= 200 /\ status < 300)))

\* a files_exist whose batch loop stops at the first batch that reports a
\* missing key
RECURSIVE GoogleCloudStorageInterface_files_exist_break(_, _, _, _, _, _)
GoogleCloudStorageInterface_files_exist_break(st, file_paths, faults, i, result, sent) ==
  IF i > Len(file_paths) THEN Logged(Batch(<<>>, <<>>, result, 0), sent)
  ELSE LET last == IF i + MAX_BATCH_SIZE - 1 < Len(file_paths)
                     THEN i + MAX_BATCH_SIZE - 1 ELSE Len(file_paths)
           chunk == SubSeq(file_paths, i, last)
           err == BatchError(st, chunk, faults, 1)
           reqs == Append(sent, chunk)
           blobs == BatchBlobs(st, chunk, faults, 1, result)
       IN  IF err \notin {"none", "NotFound"}
             THEN Logged(Batch(<<err>>, <<>>, EmptyMap, 0), reqs)
           ELSE IF err = "NotFound"
             THEN Logged(Batch(<<>>, <<>>,
                               [P \in DOMAIN blobs |->
                                  IF blobs[P] = "None" THEN "False" ELSE blobs[P]],
                               0), reqs)
           ELSE GoogleCloudStorageInterface_files_exist_break(
                  st, file_paths, faults, i + MAX_BATCH_SIZE, blobs, reqs)

\* GoogleCloudStorageInterface.files_exist: the loop
\* `for i in range(0, len(file_paths), MAX_BATCH_SIZE)`, i counted from 1;
\* each `with self._bucket.client.batch()` block sends one batch request,
\* logged as the chunk of paths it checks.
RECURSIVE GoogleCloudStorageInterface_files_exist(_, _, _, _, _, _)
GoogleCloudStorageInterface_files_exist(st, file_paths, faults, i, result, sent) ==
  IF i > Len(file_paths) THEN Logged(Batch(<<>>, <<>>, result, 0), sent)
  ELSE LET last == IF i + MAX_BATCH_SIZE - 1 < Len(file_paths)
                     THEN i + MAX_BATCH_SIZE - 1 ELSE Len(file_paths)
           chunk == SubSeq(file_paths, i, last)
           err == BatchError(st, chunk, faults, 1)
           reqs == Append(sent, chunk)
       IN  IF err \notin {"none", "NotFound"}
             THEN Logged(Batch(<<err>>, <<>>, EmptyMap, 0), reqs)
             ELSE GoogleCloudStorageInterface_files_exist(
                    st, file_paths, faults, i + MAX_BATCH_SIZE,
                    BatchBlobs(st, chunk, faults, 1, result), reqs)

\* ----------------------------------------------- HttpInterface pipelines
\* The locals of HttpInterface.get_files / files_exist: `available`, the
\* deque `running` (the paths of the requests in flight, oldest first),
\* whether `stream_id` is not None, and `open`, the streams open on the
\* connection.
Pipe(available, running, stream_id, open) ==
  [available |-> available, running |-> running, stream_id |-> stream_id,
   open |-> open]

\* a _send_next_request that forgets the path the stream limit refused
_send_next_request_drop(L) ==
  IF L.available = <<>> THEN [L EXCEPT !.stream_id = FALSE]
  ELSE IF L.open >= max_streams
    THEN [L EXCEPT !.stream_id = FALSE,
                   !.available = SubSeq(@, 1, Len(@) - 1)]
  ELSE Pipe(SubSeq(L.available, 1, Len(L.available) - 1),
            Append(L.running, L.available[Len(L.available)]),
            TRUE, L.open + 1)

\* _send_next_request: nothing left, or the stream limit hit
\* (TooManyStreamsError), gives None; else the request is in flight
_send_next_request(L) ==
  IF L.available = <<>> THEN [L EXCEPT !.stream_id = FALSE]
  ELSE IF L.open >= max_streams THEN [L EXCEPT !.stream_id = FALSE]
  ELSE Pipe(SubSeq(L.available, 1, Len(L.available) - 1),
            Append(L.running, L.available[Len(L.available)]),
            TRUE, L.open + 1)

\* What one _send_next_request puts on the connection, appended to the log
\* `sent` of what passed on it, in order: <<"request", path>> for a pipelined
\* request, <<"limit", path>> for a request the transport refused with
\* TooManyStreamsError, nothing when no path is left.
Requesting(sent, L) ==
  IF L.available = <<>> THEN sent
  ELSE IF L.open >= max_streams
    THEN Append(sent, <<"limit", L.available[Len(L.available)]>>)
  ELSE Append(sent, <<"request", L.available[Len(L.available)]>>)

\* an outcome the pipelined response gave by itself: no call of the retried
\* single-file method was made for it
Pipelined(out) == [out EXCEPT !.attempts = 0]
\* the log of reading the response of file_path, with outcome `out`:
\* <<"response", path>> for the pipelined response that was read, then
\* <<"retry", path>> for each request of the single-file method it fell back to
Response(sent, file_path, out) ==
  Append(sent, <<"response", file_path>>)
    \o [k \in 1..out.attempts |-> <<"retry", file_path>>]

\* a _get_response that answers retries that exhaust with a second round of
\* retries
get_files_get_response_again(st, file_path, sched, busy) ==
  LET err == from_http_status(HttpStatus(st, file_path, FaultAt(sched, 1)))
      out == Call("http", "get", st, file_path, NoArg, Shift(sched, 1), busy)
  IN  IF IsHTTPServerError(err)
        THEN IF out.raised = <<>> THEN out
             ELSE [Call("http", "get", st, file_path, NoArg,
                        Shift(sched, 1 + out.attempts), busy)
                     EXCEPT !.attempts = @ + out.attempts]
      ELSE IF IsHTTPClientError(err) THEN Pipelined(Raise(st, err))
      ELSE Pipelined(Return(st, <<st[<<file_path, "">>].body>>))

\* get_files' _get_response: the pipelined response of file_path is read and
\* closed; a server error falls back to self.get_file, a client error raises
get_files_get_response(st, file_path, sched, busy) ==
  LET err == from_http_status(HttpStatus(st, file_path, FaultAt(sched, 1)))
  IN  IF IsHTTPServerError(err)
        THEN Call("http", "get", st, file_path, NoArg, Shift(sched, 1), busy)
      ELSE IF IsHTTPClientError(err) THEN Pipelined(Raise(st, err))
      ELSE Pipelined(Return(st, <<st[<<file_path, "">>].body>>))

\* a get_files whose loop also ends once no input path is left to request
RECURSIVE HttpInterface_get_files_loop_early(_, _, _, _, _)
HttpInterface_get_files_loop_early(st, faults, L, results, sent) ==
  IF L.running = <<>> \/ L.available = <<>>
    THEN Logged(Batch(<<>>, results, EmptyMap, L.open), sent)
  ELSE IF L.stream_id
    THEN HttpInterface_get_files_loop_early(st, faults, _send_next_request(L),
                                            results, Requesting(sent, L))
  ELSE LET file_path == Head(L.running)
           out == get_files_get_response(st, file_path, faults[file_path],
                                         L.open - 1)
           popped == [L EXCEPT !.running = Tail(@), !.open = @ - 1]
       IN  HttpInterface_get_files_loop_early(
             st, faults, _send_next_request(popped),
             Append(results, FileResult(file_path, out)),
             Requesting(Response(sent, file_path, out), popped))

\* HttpInterface.get_files: the loop `while running`
RECURSIVE HttpInterface_get_files_loop(_, _, _, _, _)
HttpInterface_get_files_loop(st, faults, L, results, sent) ==
  IF L.running = <<>>
    THEN Logged(Batch(<<>>, results, EmptyMap, L.open), sent)
  ELSE IF L.stream_id
    THEN HttpInterface_get_files_loop(st, faults, _send_next_request(L),
                                      results, Requesting(sent, L))
  ELSE LET file_path == Head(L.running)
           out == get_files_get_response(st, file_path, faults[file_path],
                                         L.open - 1)
           popped == [L EXCEPT !.running = Tail(@), !.open = @ - 1]
       IN  HttpInterface_get_files_loop(
             st, faults, _send_next_request(popped),
             Append(results, FileResult(file_path, out)),
             Requesting(Response(sent, file_path, out), popped))

HttpInterface_get_files(st, file_paths, faults, open) ==
  HttpInterface_get_files_loop(
    st, faults, _send_next_request(Pipe(file_paths, <<>>, FALSE, open)),
    <<>>, Requesting(<<>>, Pipe(file_paths, <<>>, FALSE, open)))

\* files_exist's _get_response
files_exist_get_response(st, file_path, sched, busy) ==
  LET err == from_http_status(HttpStatus(st, file_path, FaultAt(sched, 1)))
  IN  IF err \in {"NotFound", "Forbidden"} THEN Pipelined(ReturnBool(st, FALSE))
      ELSE IF IsHTTPServerError(err)
        THEN Call("http", "exists", st, file_path, NoArg, Shift(sched, 1), busy)
      ELSE IF IsHTTPClientError(err) THEN Pipelined(Raise(st, err))
      ELSE Pipelined(ReturnBool(st, TRUE))

\* HttpInterface.files_exist: the loop `while running`; an exception of
\* _get_response leaves it with the other requests still in flight
RECURSIVE HttpInterface_files_exist_loop(_, _, _, _, _)
HttpInterface_files_exist_loop(st, faults, L, result, sent) ==
  IF L.running = <<>>
    THEN Logged(Batch(<<>>, <<>>, result, L.open), sent)
  ELSE IF L.stream_id
    THEN HttpInterface_files_exist_loop(st, faults, _send_next_request(L),
                                        result, Requesting(sent, L))
  ELSE LET file_path == Head(L.running)
           out == files_exist_get_response(st, file_path, faults[file_path],
                                           L.open - 1)
           popped == [L EXCEPT !.running = Tail(@), !.open = @ - 1]
       IN  IF out.raised # <<>>
             THEN Logged(Batch(out.raised, <<>>, EmptyMap, popped.open),
                         Response(sent, file_path, out))
           ELSE HttpInterface_files_exist_loop(
                  st, faults, _send_next_request(popped),
                  SetItem(result, file_path, Bool(out.flag)),
                  Requesting(Response(sent, file_path, out), popped))

HttpInterface_files_exist(st, file_paths, faults, open) ==
  HttpInterface_files_exist_loop(
    st, faults, _send_next_request(Pipe(file_paths, <<>>, FALSE, open)),
    NoneMap(file_paths), Requesting(<<>>, Pipe(file_paths, <<>>, FALSE, open)))

\* interface.get_files(paths) / interface.files_exist(paths) of the facade's
\* protocol
Interface_get_files(proto, st, file_paths, faults, open) ==
  IF proto = "http" THEN HttpInterface_get_files(st, file_paths, faults, open)
  ELSE get_files(proto, st, file_paths, faults, 1, <<>>)

Interface_files_exist(proto, st, file_paths, faults, open) ==
  CASE proto = "http" -> HttpInterface_files_exist(st, file_paths, faults, open)
    [] proto = "gs" ->
         GoogleCloudStorageInterface_files_exist(st, file_paths, faults, 1,
                                                 NoneMap(file_paths), <<>>)
    [] OTHER -> files_exist(proto, st, file_paths, faults, 1, EmptyMap, <<>>)

\* --------------------------------------------------------- ThreadedQueue
Workers == 1..MaxThreads

\* A task: the thunk a facade call enqueued.
Task(op, paths, arg) == [op |-> op, paths |-> paths, arg |-> arg]

\* The tasks that are enqueued or executing.
Unfinished == Len(queue) + Cardinality({w \in Workers : work[w] # <<>>})
\* No task is enqueued or executing and no error is waiting to be raised.
Quiet == Unfinished = 0 /\ error_queue = <<>>

\* lib.scatter(sequence, n): n consecutive blocks of ceil(len / n) elements
scatter(sequence, n) ==
  LET chunklen == (Len(sequence) + n - 1) \div n
      upto(k) == IF k < Len(sequence) THEN k ELSE Len(sequence)
  IN  [i \in 1..n |-> SubSeq(sequence, upto((i - 1) * chunklen) + 1,
                             upto(i * chunklen))]

\* ---------------------------------------------------------------- inputs
RECURSIVE SeqsUpTo(_, _)
SeqsUpTo(S, n) ==
  IF n = 0 THEN {<<>>}
  ELSE LET shorter == SeqsUpTo(S, n - 1)
       IN  shorter \cup {Append(q, x) : q \in shorter, x \in S}
PathLists == SeqsUpTo(Paths, MaxBatch)
Methods == {"", "gzip"}

\* What the caller saw of a call.
CallRet(op, paths, arg, sched, out) ==
  [op |-> op, paths |-> paths, arg |-> arg, sched |-> sched,
   raised |-> out.raised, value |-> out.value, flag |-> out.flag,
   attempts |-> out.attempts, results |-> <<>>, emap |-> EmptyMap,
   threads |-> threads, applied |-> <<>>, quiet |-> Quiet, sent |-> <<>>]
\* `applied` lists, result by result, the fault schedule the fetch met;
\* `quiet` tells that no earlier task was unfinished and no earlier error was
\* pending when the call began.
BatchRet(op, paths, arg, faults, b, applied, quiet) ==
  [op |-> op, paths |-> paths, arg |-> arg,
   sched |-> faults, raised |-> b.raised, value |-> <<>>, flag |-> FALSE,
   attempts |-> 0, results |-> b.results, emap |-> b.emap,
   threads |-> threads, applied |-> applied, quiet |-> quiet,
   sent |-> b.sent]
NoRet == [op |-> "none", paths |-> <<>>, arg |-> NoArg, sched |-> <<>>,
          raised |-> <<>>, value |-> <<>>, flag |-> FALSE, attempts |-> 0,
          results |-> <<>>, emap |-> EmptyMap, threads |-> 0,
          applied |-> <<>>, quiet |-> TRUE, sent |-> <<>>]
\* the schedules the fetches behind `results` met under `faults`
Applied(faults, results) ==
  [i \in 1..Len(results) |-> faults[results[i].filename]]
Done(st) == Return(st, <<>>)

\* ------------------------------------------------------------------ Init
\* Storage.__init__: the interface class by protocol; http(s) forces
\* n_threads = 0; ThreadedQueue.__init__ starts n_threads workers.  A
\* writable layer starts empty, an HTTP server serves any set of resources.
ServedStores ==
  {st \in [Keys -> {Absent} \cup {Obj(c, "") : c \in Contents}] :
     \A P \in Paths : st[<<P, ".gz">>] = Absent}
NoCall == [op |-> "none", paths |-> <<>>, arg |-> NoArg, quiet |-> TRUE]
NoResults == [results |-> <<>>, emap |-> EmptyMap, applied |-> <<>>]

Init ==
  /\ protocol \in Protocols
  /\ n_threads \in 0..MaxThreads
  /\ protocol = "http" => n_threads = 0
  /\ threads = n_threads
  /\ store \in (IF protocol = "http" THEN ServedStores ELSE {EmptyStore})
  /\ max_streams \in (IF protocol = "http" THEN 1..MaxStreams ELSE {1})
  /\ conn_streams = 0
  /\ lastPut = [P \in Paths |-> <<>>]
  /\ ret = NoRet
  /\ queue = <<>>
  /\ work = [w \in Workers |-> <<>>]
  /\ error_queue = <<>>
  /\ pc = "idle"
  /\ call = NoCall
  /\ thunk_results = NoResults

\* self.put(fn) for each of `tasks`
Enqueue(tasks) ==
  /\ Len(queue) + Len(tasks) <= MaxQueue
  /\ queue' = queue \o tasks
  /\ UNCHANGED work

\* the caller enters self.wait() inside the batched call `op`
EnterWait(op, paths, arg) ==
  /\ pc' = "wait"
  /\ call' = [op |-> op, paths |-> paths, arg |-> arg, quiet |-> Quiet]
  /\ thunk_results' = NoResults

\* per path, the content of the last completed put after the first `done`
\* of `paths` were written with v (<<>>: deleted)
LastPutAfter(lp, paths, done, v) ==
  [P \in Paths |-> IF \E j \in 1..done : paths[j] = P THEN v ELSE lp[P]]

\* a loop that drops an item's exception and goes on with the next item
RECURSIVE write_loop_swallow(_, _, _, _, _, _, _, _)
write_loop_swallow(proto, op, st, paths, arg, faults, i, busy) ==
  IF i > Len(paths) THEN [st |-> st, raised |-> <<>>, done |-> i - 1]
  ELSE LET out == Call(proto, op, st, paths[i], arg, faults[paths[i]], busy)
       IN  write_loop_swallow(proto, op, out.st, paths, arg, faults, i + 1, busy)

\* `for path, content in files: uploadfn(self._interface)` and
\* `for path in file_paths: thunk_delete(path, self._interface)` with no
\* threads: the first exception leaves the loop
RECURSIVE write_loop(_, _, _, _, _, _, _, _)
write_loop(proto, op, st, paths, arg, faults, i, busy) ==
  IF i > Len(paths) THEN [st |-> st, raised |-> <<>>, done |-> i - 1]
  ELSE LET out == Call(proto, op, st, paths[i], arg, faults[paths[i]], busy)
       IN  IF out.raised # <<>>
             THEN [st |-> out.st, raised |-> out.raised, done |-> i - 1]
             ELSE write_loop(proto, op, out.st, paths, arg, faults, i + 1, busy)

\* --------------------------------------------------------------- Storage
\* Storage.put_file: put_files([(file_path, content)], block=False)
PutFile(P, C, method, sched) ==
  /\ pc = "idle"
  /\ LET arg == Arg(compress(C, method), method)
         out == Call(protocol, "put", store, P, arg, sched, conn_streams)
     IN  IF threads > 0
           THEN /\ sched = NoFault(protocol)
                /\ Enqueue(<<Task("put", <<P>>, arg)>>)
                /\ ret' = CallRet("put_file", <<P>>, Arg(C, method), sched,
                                  Done(store))
                /\ UNCHANGED <<store, lastPut>>
           ELSE /\ store' = out.st
                /\ lastPut' = IF out.raised = <<>>
                                THEN [lastPut EXCEPT ![P] = <<C>>] ELSE lastPut
                /\ ret' = CallRet("put_file", <<P>>, Arg(C, method), sched, out)
                /\ UNCHANGED <<queue, work>>
  /\ pc' = "returned"
  /\ UNCHANGED <<protocol, n_threads, max_streams, conn_streams, threads,
                 error_queue, call, thunk_results>>
  /\ UNCHANGED <<pool_vars, listing_vars, graphene_vars>>

\* a put_files that enqueues and returns without self.wait()
PutFiles_noblock(paths, C, method, faults) ==
  /\ pc = "idle"
  /\ LET arg == Arg(compress(C, method), method)
         out == write_loop(protocol, "put", store, paths, arg, faults, 1,
                           conn_streams)
     IN  IF threads > 0
           THEN /\ faults = [P \in Paths |-> NoFault(protocol)]
                /\ Enqueue([i \in 1..Len(paths) |-> Task("put", <<paths[i]>>, arg)])
                /\ ret' = BatchRet("put_files", paths, Arg(C, method), faults,
                                   Batch(<<>>, <<>>, EmptyMap, 0), <<>>, Quiet)
                /\ UNCHANGED <<store, lastPut>>
           ELSE /\ store' = out.st
                /\ lastPut' = LastPutAfter(lastPut, paths, out.done, <<C>>)
                /\ ret' = BatchRet("put_files", paths, Arg(C, method), faults,
                                   Batch(out.raised, <<>>, EmptyMap, 0),
                                   <<>>, TRUE)
                /\ UNCHANGED <<queue, work>>
  /\ pc' = "returned"
  /\ UNCHANGED <<protocol, n_threads, max_streams, conn_streams, threads,
                 error_queue, call, thunk_results>>
  /\ UNCHANGED <<pool_vars, listing_vars, graphene_vars>>

\* Storage.put_files(files, block=True), every file with content C
PutFiles(paths, C, method, faults) ==
  /\ pc = "idle"
  /\ LET arg == Arg(compress(C, method), method)
     IN  IF threads > 0
           THEN /\ faults = [P \in Paths |-> NoFault(protocol)]
                /\ Enqueue([i \in 1..Len(paths) |-> Task("put", <<paths[i]>>, arg)])
                /\ EnterWait("put_files", paths, Arg(C, method))
                /\ UNCHANGED <<store, lastPut, ret>>
           ELSE \E out \in {write_loop(protocol, "put", store, paths, arg,
                                       faults, 1, conn_streams)} :
                /\ store' = out.st
                /\ lastPut' = LastPutAfter(lastPut, paths, out.done, <<C>>)
                /\ ret' = BatchRet("put_files", paths, Arg(C, method), faults,
                                   Batch(out.raised, <<>>, EmptyMap, 0),
                                   <<>>, TRUE)
                /\ pc' = "returned"
                /\ UNCHANGED <<queue, work, call, thunk_results>>
  /\ UNCHANGED <<protocol, n_threads, max_streams, conn_streams, threads,
                 error_queue>>
  /\ UNCHANGED <<pool_vars, listing_vars, graphene_vars>>

\* Storage.delete_file: no wait
DeleteFile(P, sched) ==
  /\ pc = "idle"
  /\ LET out == Call(protocol, "delete", store, P, NoArg, sched, conn_streams)
     IN  IF threads > 0
           THEN /\ sched = NoFault(protocol)
                /\ Enqueue(<<Task("delete", <<P>>, NoArg)>>)
                /\ ret' = CallRet("delete_file", <<P>>, NoArg, sched, Done(store))
                /\ UNCHANGED <<store, lastPut>>
           ELSE /\ store' = out.st
                /\ lastPut' = IF out.raised = <<>>
                                THEN [lastPut EXCEPT ![P] = <<>>] ELSE lastPut
                /\ ret' = CallRet("delete_file", <<P>>, NoArg, sched, out)
                /\ UNCHANGED <<queue, work>>
  /\ pc' = "returned"
  /\ UNCHANGED <<protocol, n_threads, max_streams, conn_streams, threads,
                 error_queue, call, thunk_results>>
  /\ UNCHANGED <<pool_vars, listing_vars, graphene_vars>>

\* a delete_files that enqueues its thunks whether or not there are threads
DeleteFiles_enqueue(paths, faults) ==
  /\ pc = "idle"
  /\ faults = [P \in Paths |-> NoFault(protocol)]
  /\ Enqueue([i \in 1..Len(paths) |-> Task("delete", <<paths[i]>>, NoArg)])
  /\ EnterWait("delete_files", paths, NoArg)
  /\ UNCHANGED <<protocol, n_threads, store, max_streams, conn_streams,
                 lastPut, ret, threads, error_queue>>
  /\ UNCHANGED <<pool_vars, listing_vars, graphene_vars>>

\* Storage.delete_files
DeleteFiles(paths, faults) ==
  /\ pc = "idle"
  /\ IF threads > 0
       THEN /\ faults = [P \in Paths |-> NoFault(protocol)]
            /\ Enqueue([i \in 1..Len(paths) |-> Task("delete", <<paths[i]>>, NoArg)])
            /\ EnterWait("delete_files", paths, NoArg)
            /\ UNCHANGED <<store, lastPut, ret>>
       ELSE \E out \in {write_loop(protocol, "delete", store, paths, NoArg,
                                   faults, 1, conn_streams)} :
            /\ store' = out.st
            /\ lastPut' = LastPutAfter(lastPut, paths, out.done, <<>>)
            /\ ret' = BatchRet("delete_files", paths, NoArg, faults,
                               Batch(out.raised, <<>>, EmptyMap, 0),
                               <<>>, TRUE)
            /\ pc' = "returned"
            /\ UNCHANGED <<queue, work, call, thunk_results>>
  /\ UNCHANGED <<protocol, n_threads, max_streams, conn_streams, threads,
                 error_queue>>
  /\ UNCHANGED <<pool_vars, listing_vars, graphene_vars>>

\* Storage.get_file: self._interface.get_file(file_path)
GetFile(P, sched) ==
  /\ pc = "idle"
  /\ ret' = CallRet("get_file", <<P>>, NoArg, sched,
                    Call(protocol, "get", store, P, NoArg, sched, conn_streams))
  /\ pc' = "returned"
  /\ UNCHANGED <<protocol, n_threads, store, max_streams, conn_streams,
                 lastPut, threads, queue, work, error_queue, call,
                 thunk_results>>
  /\ UNCHANGED <<pool_vars, listing_vars, graphene_vars>>

\* Storage.exists: self._interface.exists(file_path)
Exists(P, sched) ==
  /\ pc = "idle"
  /\ ret' = CallRet("exists", <<P>>, NoArg, sched,
                    Call(protocol, "exists", store, P, NoArg, sched, conn_streams))
  /\ pc' = "returned"
  /\ UNCHANGED <<protocol, n_threads, store, max_streams, conn_streams,
                 lastPut, threads, queue, work, error_queue, call,
                 thunk_results>>
  /\ UNCHANGED <<pool_vars, listing_vars, graphene_vars>>

\* Storage.get_files
GetFiles(file_paths, faults) ==
  /\ pc = "idle"
  /\ LET blocks == scatter(file_paths, threads)
     IN  IF threads > 0
           THEN /\ faults = [P \in Paths |-> NoFault(protocol)]
                /\ Enqueue([i \in 1..threads |-> Task("get_files", blocks[i], NoArg)])
                /\ EnterWait("get_files", file_paths, NoArg)
                /\ UNCHANGED <<ret, conn_streams>>
           ELSE \E b \in {Interface_get_files(protocol, store, file_paths,
                                              faults, conn_streams)} :
                /\ ret' = BatchRet("get_files", file_paths, NoArg, faults, b,
                                   Applied(faults, b.results), TRUE)
                /\ conn_streams' = IF protocol = "http" THEN b.open ELSE conn_streams
                /\ pc' = "returned"
                /\ UNCHANGED <<queue, work, call, thunk_results>>
  /\ UNCHANGED <<protocol, n_threads, store, max_streams, lastPut, threads,
                 error_queue>>
  /\ UNCHANGED <<pool_vars, listing_vars, graphene_vars>>

\* Storage.files_exist
FilesExist(file_paths, faults) ==
  /\ pc = "idle"
  /\ LET blocks == scatter(file_paths, threads)
     IN  IF threads > 0
           THEN /\ faults = [P \in Paths |-> NoFault(protocol)]
                /\ Enqueue([i \in 1..threads |-> Task("files_exist", blocks[i], NoArg)])
                /\ EnterWait("files_exist", file_paths, NoArg)
                /\ UNCHANGED <<ret, conn_streams>>
           ELSE \E b \in {Interface_files_exist(protocol, store, file_paths,
                                                faults, conn_streams)} :
                /\ ret' = BatchRet("files_exist", file_paths, NoArg, faults, b,
                                   <<>>, TRUE)
                /\ conn_streams' = IF protocol = "http" THEN b.open ELSE conn_streams
                /\ pc' = "returned"
                /\ UNCHANGED <<queue, work, call, thunk_results>>
  /\ UNCHANGED <<protocol, n_threads, store, max_streams, lastPut, threads,
                 error_queue>>
  /\ UNCHANGED <<pool_vars, listing_vars, graphene_vars>>

\* The caller takes what the call returned or raised and goes on to its
\* next call.
Resume ==
  /\ pc = "returned"
  /\ pc' = "idle"
  /\ ret' = NoRet
  /\ UNCHANGED <<protocol, n_threads, store, max_streams, conn_streams,
                 lastPut, threads, queue, work, error_queue, call,
                 thunk_results>>
  /\ UNCHANGED <<pool_vars, listing_vars, graphene_vars>>

\* ------------------------------------------------- ThreadedQueue workers
\* _consume_queue: `fn = self._queue.get(...)` while the terminate event is
\* not set
WorkerTake(w) ==
  /\ w <= threads
  /\ pc # "kill"
  /\ work[w] = <<>>
  /\ queue # <<>>
  /\ work' = [work EXCEPT ![w] = <<Head(queue)>>]
  /\ queue' = Tail(queue)
  /\ UNCHANGED <<protocol, n_threads, store, max_streams, conn_streams,
                 lastPut, ret, threads, error_queue, pc, call, thunk_results>>
  /\ UNCHANGED <<pool_vars, listing_vars, graphene_vars>>

\* _consume_queue_execution of base_uploadfn / thunk_delete: fn(interface),
\* task_done(), and the exception put on the error queue
WorkerWrite(w, sched) ==
  /\ work[w] # <<>>
  /\ work[w][1].op \in {"put", "delete"}
  /\ \E t \in {work[w][1]} : \E P \in {t.paths[1]} :
     \E out \in {Call(protocol, t.op, store, P, t.arg, sched, 0)} :
         /\ store' = out.st
         /\ lastPut' =
              IF out.raised # <<>> THEN lastPut
              ELSE IF t.op = "delete" THEN [lastPut EXCEPT ![P] = <<>>]
              ELSE [lastPut EXCEPT
                      ![P] = <<decompress(t.arg.content, t.arg.compress)>>]
         /\ Len(error_queue) + Len(out.raised) <= MaxErrors
         /\ error_queue' = error_queue \o out.raised
  /\ work' = [work EXCEPT ![w] = <<>>]
  /\ UNCHANGED <<protocol, n_threads, max_streams, conn_streams, ret, threads,
                 queue, pc, call, thunk_results>>
  /\ UNCHANGED <<pool_vars, listing_vars, graphene_vars>>

\* _consume_queue_execution of get_file_thunk / exist_thunk:
\* results.extend(interface.get_files(paths)),
\* results.update(interface.files_exist(paths))
WorkerRead(w, faults) ==
  /\ work[w] # <<>>
  /\ work[w][1].op \in {"get_files", "files_exist"}
  /\ \E t \in {work[w][1]} :
     \E b \in {IF t.op = "get_files"
                THEN Interface_get_files(protocol, store, t.paths, faults, 0)
                ELSE Interface_files_exist(protocol, store, t.paths, faults, 0)} :
         /\ Len(error_queue) + Len(b.raised) <= MaxErrors
         /\ error_queue' = error_queue \o b.raised
         /\ thunk_results' =
              IF b.raised # <<>> THEN thunk_results
              ELSE [results |-> thunk_results.results \o b.results,
                    emap |-> [P \in DOMAIN thunk_results.emap \cup DOMAIN b.emap |->
                                IF P \in DOMAIN b.emap THEN b.emap[P]
                                ELSE thunk_results.emap[P]],
                    applied |-> thunk_results.applied
                                \o Applied(faults, b.results)]
  /\ work' = [work EXCEPT ![w] = <<>>]
  /\ UNCHANGED <<protocol, n_threads, store, max_streams, conn_streams,
                 lastPut, ret, threads, queue, pc, call>>
  /\ UNCHANGED <<pool_vars, listing_vars, graphene_vars>>

\* wait(): `while not self._queue.empty(): self._check_errors()` finds an
\* error: kill_threads sets the terminate event
WaitCheckErrors ==
  /\ pc = "wait"
  /\ queue # <<>>
  /\ error_queue # <<>>
  /\ pc' = "kill"
  /\ UNCHANGED <<protocol, n_threads, store, max_streams, conn_streams,
                 lastPut, ret, threads, queue, work, error_queue, call,
                 thunk_results>>
  /\ UNCHANGED <<pool_vars, listing_vars, graphene_vars>>

\* kill_threads() ends once no worker is alive: each finished its task; the
\* error is raised to the caller of the batched call
KillThreads ==
  /\ pc = "kill"
  /\ \A w \in Workers : work[w] = <<>>
  /\ threads' = 0
  /\ error_queue' = Tail(error_queue)
  /\ pc' = "returned"
  /\ ret' = BatchRet(call.op, call.paths, call.arg, <<>>,
                     Batch(<<Head(error_queue)>>, <<>>, EmptyMap, 0),
                     <<>>, call.quiet)
  /\ call' = NoCall
  /\ thunk_results' = NoResults
  /\ UNCHANGED <<protocol, n_threads, store, max_streams, conn_streams,
                 lastPut, queue, work>>
  /\ UNCHANGED <<pool_vars, listing_vars, graphene_vars>>

\* wait(): self._queue.join() returns, then self._check_errors(): the call
\* raises the first error of the error queue or returns what the thunks
\* collected
WaitJoin ==
  /\ pc = "wait"
  /\ queue = <<>>
  /\ \A w \in Workers : work[w] = <<>>
  /\ IF error_queue # <<>>
       THEN /\ threads' = 0
            /\ error_queue' = Tail(error_queue)
            /\ ret' = BatchRet(call.op, call.paths, call.arg, <<>>,
                               Batch(<<Head(error_queue)>>, <<>>, EmptyMap, 0),
                               <<>>, call.quiet)
       ELSE /\ ret' = BatchRet(call.op, call.paths, call.arg, <<>>,
                               Batch(<<>>, thunk_results.results,
                                     thunk_results.emap, 0),
                               thunk_results.applied, call.quiet)
            /\ UNCHANGED <<threads, error_queue>>
  /\ pc' = "returned"
  /\ call' = NoCall
  /\ thunk_results' = NoResults
  /\ UNCHANGED <<protocol, n_threads, store, max_streams, conn_streams,
                 lastPut, queue, work>>
  /\ UNCHANGED <<pool_vars, listing_vars, graphene_vars>>

\* ------------------------------------------------- connection handles
\* The facade objects of a process that open the same layer, and the
\* connection pool of that layer's bucket.
MaxFacades == 2
Facades == 1..MaxFacades
Classes == {"SimpleStorage", "Storage"}
\* a protocol neither __init__ has a branch for
UnsupportedProtocols == {"ftp"}
\* FileInterface holds no connection: its release_connection is `pass`
Pooled(proto) == proto \in {"gs", "s3", "http"}
NoHandle == 0

\* pool.get_connection(): a released handle if there is one, else a new one
get_connection(free, made) ==
  IF free # <<>>
    THEN [handle |-> Head(free), pool |-> Tail(free), issued |-> made]
    ELSE [handle |-> made + 1, pool |-> free, issued |-> made + 1]
\* pool.release_connection(handle)
release_connection(free, handle) == Append(free, handle)

\* self._interface_cls(self._path): the interface's __init__ takes a
\* connection of its pool
Interface(proto, free, made) ==
  IF Pooled(proto) THEN get_connection(free, made)
  ELSE [handle |-> NoHandle, pool |-> free, issued |-> made]
\* interface.release_connection()
Interface_release_connection(proto, free, handle) ==
  IF Pooled(proto) THEN release_connection(free, handle) ELSE free

\* `requested` is the n_threads argument of Storage.__init__, `n_threads` the
\* number of worker threads the facade runs with
NoFacade ==
  [cls |-> "none", st |-> "none", protocol |-> "", n_threads |-> 0,
   _interface |-> NoHandle, released |-> 0, terminate |-> FALSE,
   raised |-> <<>>, requested |-> 0]
NoInterface == [st |-> "none", handle |-> NoHandle, released |-> 0]
\* the worker threads of facade f that have not left _consume_queue
Alive(f) == {w \in Workers : interfaces[f][w].st \in {"starting", "running"}}

InitPool ==
  /\ pool = <<>>
  /\ issued = 0
  /\ facades = [f \in Facades |-> NoFacade]
  /\ interfaces = [f \in Facades |-> [w \in Workers |-> NoInterface]]

\* an __init__ that builds its interface before it looks at the protocol
Construct_acquire_first(f, cls, proto, n) ==
  /\ facades[f].st = "none"
  /\ LET c == get_connection(pool, issued)
     IN  /\ pool' = c.pool
         /\ issued' = c.issued
         /\ facades' = [facades EXCEPT ![f] =
              [cls |-> cls, st |-> IF proto \in Protocols THEN "open" ELSE "failed",
               protocol |-> proto, n_threads |-> 0, _interface |-> c.handle,
               released |-> 0, terminate |-> FALSE,
               raised |-> IF proto \in Protocols THEN <<>>
                          ELSE <<"UnsupportedProtocolError">>,
               requested |-> 0]]
  /\ UNCHANGED <<interfaces, storage_vars, listing_vars, graphene_vars>>

\* a Storage.__init__ that starts the requested workers on every protocol
Construct_threaded_http(f, cls, proto, n) ==
  /\ facades[f].st = "none"
  /\ IF proto \notin Protocols
       THEN /\ facades' = [facades EXCEPT ![f] =
                 [NoFacade EXCEPT !.cls = cls, !.st = "failed",
                                  !.protocol = proto,
                                  !.raised = <<"UnsupportedProtocolError">>]]
            /\ UNCHANGED <<pool, issued, interfaces>>
       ELSE LET c == Interface(proto, pool, issued)
                n_thr == IF cls = "SimpleStorage" THEN 0 ELSE n
            IN  /\ pool' = c.pool
                /\ issued' = c.issued
                /\ facades' = [facades EXCEPT ![f] =
                     [cls |-> cls, st |-> "open", protocol |-> proto,
                      n_threads |-> n_thr, _interface |-> c.handle,
                      released |-> 0, terminate |-> FALSE, raised |-> <<>>,
                      requested |-> IF cls = "Storage" THEN n ELSE 0]]
                /\ interfaces' = [interfaces EXCEPT ![f] =
                     [w \in Workers |->
                        IF w <= n_thr
                          THEN [NoInterface EXCEPT !.st = "starting"]
                          ELSE NoInterface]]
  /\ UNCHANGED <<storage_vars, listing_vars, graphene_vars>>

\* SimpleStorage.__init__(layer_path) and Storage.__init__(layer_path,
\* n_threads): the interface class by protocol or UnsupportedProtocolError,
\* then the facade's own interface, then ThreadedQueue.__init__(n_threads),
\* which starts the worker threads
Construct(f, cls, proto, n) ==
  /\ facades[f].st = "none"
  /\ IF proto \notin Protocols
       THEN /\ facades' = [facades EXCEPT ![f] =
                 [NoFacade EXCEPT !.cls = cls, !.st = "failed",
                                  !.protocol = proto,
                                  !.raised = <<"UnsupportedProtocolError">>]]
            /\ UNCHANGED <<pool, issued, interfaces>>
       ELSE LET c == Interface(proto, pool, issued)
                n_thr == IF cls = "SimpleStorage" \/ proto = "http" THEN 0 ELSE n
            IN  /\ pool' = c.pool
                /\ issued' = c.issued
                /\ facades' = [facades EXCEPT ![f] =
                     [cls |-> cls, st |-> "open", protocol |-> proto,
                      n_threads |-> n_thr, _interface |-> c.handle,
                      released |-> 0, terminate |-> FALSE, raised |-> <<>>,
                      requested |-> IF cls = "Storage" THEN n ELSE 0]]
                /\ interfaces' = [interfaces EXCEPT ![f] =
                     [w \in Workers |->
                        IF w <= n_thr
                          THEN [NoInterface EXCEPT !.st = "starting"]
                          ELSE NoInterface]]
  /\ UNCHANGED <<storage_vars, listing_vars, graphene_vars>>

\* a worker thread enters Storage._consume_queue:
\* `interface = self._initialize_interface()`
WorkerStart(f, w) ==
  /\ interfaces[f][w].st = "starting"
  /\ LET c == Interface(facades[f].protocol, pool, issued)
     IN  /\ pool' = c.pool
         /\ issued' = c.issued
         /\ interfaces' = [interfaces EXCEPT ![f][w] =
              [st |-> "running", handle |-> c.handle, released |-> 0]]
  /\ UNCHANGED <<facades, storage_vars, listing_vars, graphene_vars>>

\* the terminate event is set and the worker thread leaves
\* Storage._consume_queue: `self._close_interface(interface)` at the end of
\* the inherited loop, then `self._interface.release_connection()`
WorkerExit(f, w) ==
  /\ interfaces[f][w].st = "running"
  /\ facades[f].terminate
  /\ LET proto == facades[f].protocol
         closed == Interface_release_connection(proto, pool,
                                                interfaces[f][w].handle)
     IN  pool' = Interface_release_connection(proto, closed,
                                              facades[f]._interface)
  /\ interfaces' = [interfaces EXCEPT ![f][w].st = "dead",
                                      ![f][w].released = @ + 1]
  /\ facades' = [facades EXCEPT ![f].released = @ + 1]
  /\ UNCHANGED <<issued, storage_vars, listing_vars, graphene_vars>>

\* wait() meets a task's error while the facade is in use: kill_threads()
\* sets the terminate event
KillOnError(f) ==
  /\ facades[f].st = "open"
  /\ Alive(f) # {}
  /\ ~facades[f].terminate
  /\ facades' = [facades EXCEPT ![f].terminate = TRUE]
  /\ UNCHANGED <<pool, issued, interfaces, storage_vars, listing_vars, graphene_vars>>

\* __exit__ (how = "exit") or __del__ (how = "del") of a facade: the
\* inherited hook sets the terminate event and waits for the worker threads,
\* then `self._interface.release_connection()`.  __del__ also follows an
\* earlier __exit__.
Close(f, how) ==
  /\ facades[f].st \in (IF how = "exit" THEN {"open"} ELSE {"open", "exited"})
  /\ IF Alive(f) # {}
       THEN /\ facades' = [facades EXCEPT
                 ![f].st = IF how = "exit" THEN "exiting" ELSE "deleting",
                 ![f].terminate = TRUE]
            /\ UNCHANGED pool
       ELSE /\ facades' = [facades EXCEPT
                 ![f].st = IF how = "exit" THEN "exited" ELSE "deleted",
                 ![f].terminate = TRUE,
                 ![f].released = @ + 1]
            /\ pool' = Interface_release_connection(facades[f].protocol, pool,
                                                    facades[f]._interface)
  /\ UNCHANGED <<issued, interfaces, storage_vars, listing_vars, graphene_vars>>

\* the worker threads are gone: the hook goes on to
\* `self._interface.release_connection()`
CloseJoin(f) ==
  /\ facades[f].st \in {"exiting", "deleting"}
  /\ Alive(f) = {}
  /\ facades' = [facades EXCEPT
       ![f].st = IF facades[f].st = "exiting" THEN "exited" ELSE "deleted",
       ![f].released = @ + 1]
  /\ pool' = Interface_release_connection(facades[f].protocol, pool,
                                          facades[f]._interface)
  /\ UNCHANGED <<issued, interfaces, storage_vars, listing_vars, graphene_vars>>

\* ---------------------------------------------------------- list_files
\* Names are sequences of characters.  The layer holds its objects under
\* the key prefix layer_path; ObjectNames are the relative names it may hold,
\* one of them with the string of layer_path inside.
layer_path == <<"l", "/">>
ObjectNames ==
  {<<"a", "/", "b", "/", "c">>, <<"a", "/", "b", "/", "d">>,
   <<"a", "/", "e">>, <<"a", "/", "e", ".", "g", "z">>, <<"f">>,
   <<"a", "/", "l", "/", "e">>}
Prefixes == {<<>>, <<"a", "/">>, <<"a", "/", "b", "/">>, <<"a", "/", "e">>}

\* ord(c) of the characters in use; "U+00FE" and "U+00FF" stand for the
\* characters of those code points
ord(c) ==
  CASE c = "U+00FE" -> 254
    [] c = "U+00FF" -> 255
    [] c = "." -> 46
    [] c = "/" -> 47
    [] c = "a" -> 97
    [] c = "b" -> 98
    [] c = "c" -> 99
    [] c = "d" -> 100
    [] c = "e" -> 101
    [] c = "f" -> 102
    [] c = "g" -> 103
    [] c = "l" -> 108
    [] c = "z" -> 122

\* s[:len(p)] == p
startswith(s, p) == Len(p) <= Len(s) /\ SubSeq(s, 1, Len(p)) = p
\* c in s
contains(s, c) == \E i \in 1..Len(s) : s[i] = c
\* s.replace(old, ''): every occurrence of old is removed, left to right
RECURSIVE replace(_, _)
replace(s, old) ==
  IF s = <<>> \/ old = <<>> THEN s
  ELSE IF startswith(s, old) THEN replace(SubSeq(s, Len(old) + 1, Len(s)), old)
  ELSE <<Head(s)>> \o replace(Tail(s), old)

\* os.path.splitext(fname)[1]: from the last dot of the last path component,
\* unless only dots come before it in that component
splitext(fname) ==
  LET slashes == {i \in 1..Len(fname) : fname[i] = "/"}
      start == IF slashes = {} THEN 1
               ELSE (CHOOSE i \in slashes : \A j \in slashes : j <= i) + 1
      dots == {i \in start..Len(fname) :
                 /\ fname[i] = "."
                 /\ \E j \in start..(i - 1) : fname[j] # "."}
      dot == CHOOSE i \in dots : \A j \in dots : j <= i
  IN  IF dots = {} THEN [base |-> fname, ext |-> <<>>]
      ELSE [base |-> SubSeq(fname, 1, dot - 1),
            ext |-> SubSeq(fname, dot, Len(fname))]
\* FileInterface.list_files.stripgz
stripgz(fname) ==
  IF splitext(fname).ext = <<".", "g", "z">> THEN splitext(fname).base
  ELSE fname

\* the buckets of _radix_sort: `[ [] for x in range(255) ]`
RADIX_BUCKETS == 255
\* what a call of _radix_sort gives: the list it returns, or the exception
\* it raises
Sorted(out) == [out |-> out, raised |-> <<>>]
IndexError == [out |-> <<>>, raised |-> <<"IndexError">>]
\* the loop `for s in L`: buckets[ ord(s[i]) ] of a character whose code is
\* no index of the bucket list raises IndexError
radix_distribute(L, i) ==
  IF \E n \in 1..Len(L) : i <= Len(L[n]) /\ ord(L[n][i]) >= RADIX_BUCKETS
    THEN IndexError
    ELSE Sorted(L)
\* [ b for blist in buckets[k:] for b in blist ], each bucket sorted at
\* character i + 1; the empty buckets before the next filled one are passed
\* over at once
RECURSIVE _radix_sort(_, _)
RECURSIVE radix_buckets_from(_, _, _)
radix_buckets_from(L, i, k) ==
  LET filled == {ord(L[n][i]) : n \in {m \in 1..Len(L) : i <= Len(L[m])}}
      later == {o \in filled : o >= k}
      next == CHOOSE o \in later : \A q \in later : o <= q
      IsIn(s) == i <= Len(s) /\ ord(s[i]) = next
      bucket == _radix_sort(SelectSeq(L, IsIn), i + 1)
      rest == radix_buckets_from(L, i, next + 1)
  IN  IF later = {} THEN Sorted(<<>>)
      ELSE IF bucket.raised # <<>> THEN bucket
      ELSE IF rest.raised # <<>> THEN rest
      ELSE Sorted(bucket.out \o rest.out)
\* _radix_sort(L, i), i counted from 1: the strings that end before
\* character i first, then the buckets by ord(s[i])
_radix_sort(L, i) ==
  LET IsDone(s) == i > Len(s)
      dealt == radix_distribute(L, i)
      buckets == radix_buckets_from(dealt.out, i, 0)
  IN  IF Len(L) <= 1 THEN Sorted(L)
      ELSE IF dealt.raised # <<>> THEN dealt
      ELSE IF buckets.raised # <<>> THEN buckets
      ELSE Sorted(SelectSeq(dealt.out, IsDone) \o buckets.out)

\* the sequences that hold each element of the set S once: the orders in
\* which a backend may enumerate S
RECURSIVE Orders(_)
Orders(S) ==
  IF S = {} THEN {<<>>}
  ELSE UNION {{<<x>> \o q : q \in Orders(S \ {x})} : x \in S}

\* a flat filter that collapses a deeper path into its directory-like entry
\* instead of passing it over
one_level(prefix, filename) ==
  LET rest == SubSeq(filename, Len(prefix) + 1, Len(filename))
      cut == CHOOSE i \in 1..Len(rest) :
               rest[i] = "/" /\ \A j \in 1..(i - 1) : rest[j] # "/"
  IN  IF contains(rest, "/") THEN prefix \o SubSeq(rest, 1, cut) ELSE filename

\* FileInterface.list_files: glob(path + '*') keeps the entries of one
\* directory and the loop passes over those that are no files; os.walk gives
\* every file below the directory of the prefix; `walked` is the order in
\* which the file system hands out the stored names
FileInterface_list_files(walked, prefix, flat) ==
  LET remove == layer_path
      Rel(name) == replace(layer_path \o name, remove)
      Globbed(name) ==
        /\ startswith(name, prefix)
        /\ ~contains(SubSeq(name, Len(prefix) + 1, Len(name)), "/")
      Walked(name) == startswith(Rel(name), prefix)
      globbed == SelectSeq(walked, Globbed)
      filenames ==
        IF flat THEN [n \in 1..Len(globbed) |-> Rel(globbed[n])]
        ELSE SelectSeq([n \in 1..Len(walked) |-> Rel(walked[n])], Walked)
  IN  _radix_sort([n \in 1..Len(filenames) |-> stripgz(filenames[n])], 1)

\* a cloud listing whose flat filter is one_level
list_blobs_one_level(blobs, prefix, flat) ==
  LET path == layer_path \o prefix
      Key(name) == layer_path \o name
      Listed(name) == startswith(Key(name), path)
      Yields(name) ==
        LET filename == replace(Key(name), layer_path)
        IN  IF ~flat THEN filename # <<>> /\ filename[Len(filename)] # "/"
            ELSE TRUE
      Name(name) ==
        IF flat THEN one_level(prefix, replace(Key(name), layer_path))
        ELSE replace(Key(name), layer_path)
      yielded == SelectSeq(SelectSeq(blobs, Listed), Yields)
  IN  [n \in 1..Len(yielded) |-> Name(yielded[n])]

\* GoogleCloudStorageInterface.list_files and S3Interface.list_files (its
\* pages one after the other): the keys under the prefix in the order the
\* backend enumerates them, `blobs`, each yielded when the filter lets it by
list_blobs(blobs, prefix, flat) ==
  LET path == layer_path \o prefix
      Key(name) == layer_path \o name
      Listed(name) == startswith(Key(name), path)
      Yields(name) ==
        LET filename == replace(Key(name), layer_path)
        IN  IF ~flat THEN filename # <<>> /\ filename[Len(filename)] # "/"
            ELSE ~contains(replace(Key(name), path), "/")
      Name(name) == replace(Key(name), layer_path)
      yielded == SelectSeq(SelectSeq(blobs, Listed), Yields)
  IN  [n \in 1..Len(yielded) |-> Name(yielded[n])]

\* interface.list_files(prefix, flat) run to its end; HttpInterface's raises
Interface_list_files(proto, order, prefix, flat) ==
  CASE proto = "file" -> FileInterface_list_files(order, prefix, flat)
    [] proto \in {"gs", "s3"} ->
         [out |-> list_blobs(order, prefix, flat), raised |-> <<>>]
    [] OTHER -> [out |-> <<>>, raised |-> <<"NotImplementedError">>]

NoListing ==
  [st |-> "none", prefix |-> <<>>, flat |-> FALSE, out |-> <<>>,
   raised |-> <<>>]
\* no call of _radix_sort on its own is under way
NoSort == [st |-> "none", L |-> <<>>, out |-> <<>>, raised |-> <<>>]
InitListing ==
  /\ objects = {}
  /\ listing = NoListing
  /\ sorting = NoSort

\* Storage.list_files(prefix, flat), a generator function: the call makes the
\* generator and runs nothing of the body
ListFiles(prefix, flat) ==
  /\ pc = "idle"
  /\ listing.st = "none"
  /\ listing' = [NoListing EXCEPT !.st = "generator", !.prefix = prefix,
                                  !.flat = flat]
  /\ UNCHANGED <<objects, sorting, storage_vars, pool_vars, graphene_vars>>

\* the caller iterates the generator to its end:
\* `for f in self._interface.list_files(prefix, flat): yield f`
Iterate(order) ==
  /\ pc = "idle"
  /\ listing.st = "generator"
  /\ LET l == Interface_list_files(protocol, order, listing.prefix,
                                   listing.flat)
     IN  listing' = [listing EXCEPT !.st = "exhausted", !.out = l.out,
                                    !.raised = l.raised]
  /\ UNCHANGED <<objects, sorting, storage_vars, pool_vars, graphene_vars>>

\* the caller drops the generator, iterated or not
Discard ==
  /\ listing.st # "none"
  /\ listing' = NoListing
  /\ UNCHANGED <<objects, sorting, storage_vars, pool_vars, graphene_vars>>

\* the caller calls _radix_sort(L) (i = 0 by default: the first character)
RadixSort(L) ==
  /\ sorting.st = "none"
  /\ LET r == _radix_sort(L, 1)
     IN  sorting' = [st |-> "returned", L |-> L, out |-> r.out,
                     raised |-> r.raised]
  /\ UNCHANGED <<objects, listing, storage_vars, pool_vars, graphene_vars>>

\* the caller drops what the call gave
SortDiscard ==
  /\ sorting.st = "returned"
  /\ sorting' = NoSort
  /\ UNCHANGED <<objects, listing, storage_vars, pool_vars, graphene_vars>>

\* ------------------------------------------------------ GrapheneMetadata
\* A numpy uint64, as the set of the positions of its set bits, bit 0 the
\* lowest.
Bits == 0..63
\* uint64(0xff00000000000000) and uint64(0x00ffffffffffffff)
uint64_0xff00000000000000 == 56..63
uint64_0x00ffffffffffffff == 0..55
\* a & b is a \cap b, a | b is a \cup b, uint64(0) is {} and uint64(1) is {0};
\* a << k, a >> k on uint64: bits shifted out are lost
shl64(a, k) == {i + k : i \in a} \cap Bits
shr64(a, k) == {i - k : i \in a} \cap Bits
\* int(a) of a uint64 below 256
int64(a) ==
  (IF 0 \in a THEN 1 ELSE 0) + (IF 1 \in a THEN 2 ELSE 0)
    + (IF 2 \in a THEN 4 ELSE 0) + (IF 3 \in a THEN 8 ELSE 0)
    + (IF 4 \in a THEN 16 ELSE 0) + (IF 5 \in a THEN 32 ELSE 0)
    + (IF 6 \in a THEN 64 ELSE 0) + (IF 7 \in a THEN 128 ELSE 0)

\* self.info['graph']['spatial_bit_masks']: per level of the graph, the bits
\* of each of X, Y, Z
spatial_bit_masks == [level \in 1..3 |-> IF level = 3 THEN 9 ELSE 10]
\* the values info['graph']['n_bits_for_layer_id'] takes (8 when absent)
LayerIdBits == {6, 8}

\* decode_level
decode_level(n_bits_for_layer_id, label) ==
  shr64((label \cap uint64_0xff00000000000000), 64 - n_bits_for_layer_id)

\* spatial_bit_count(level)
spatial_bit_count(level) == spatial_bit_masks[int64(level)]

\* level_segid_bits(level)
level_segid_bits(n_bits_for_layer_id, level) ==
  64 - n_bits_for_layer_id - 3 * spatial_bit_count(level)

\* `mask = uint64(0); for _ in range(k): mask |= uint64(1); mask = mask <<
\* uint64(1)`
RECURSIVE mask_loop(_, _)
mask_loop(mask, k) ==
  IF k <= 0 THEN mask ELSE mask_loop(shl64(mask \cup {0}, 1), k - 1)

\* decode_segid
decode_segid(n_bits_for_layer_id, label) ==
  LET level == decode_level(n_bits_for_layer_id, label)
      segid_bits == level_segid_bits(n_bits_for_layer_id, level)
  IN  label \cap mask_loop({}, segid_bits)

\* spatial_bit_masks(level): the masks of X, Y, Z
spatial_bit_masks_of(n_bits_for_layer_id, level) ==
  LET ct == spatial_bit_count(level)
      mask == mask_loop({}, ct)
      segid_bits == 64 - n_bits_for_layer_id - 3 * ct
  IN  <<shl64(mask, segid_bits + 2 * ct), shl64(mask, segid_bits + 1 * ct),
        shl64(mask, segid_bits + 0 * ct)>>

\* decode_chunk_position: (x, y, z)
decode_chunk_position(n_bits_for_layer_id, label) ==
  LET level == decode_level(n_bits_for_layer_id, label)
      ct == spatial_bit_count(level)
      low == (label \cap uint64_0x00ffffffffffffff)
      masks == spatial_bit_masks_of(n_bits_for_layer_id, level)
      segid_bits == level_segid_bits(n_bits_for_layer_id, level)
  IN  <<shr64((low \cap masks[1]), segid_bits + 2 * ct),
        shr64((low \cap masks[2]), segid_bits + 1 * ct),
        shr64((low \cap masks[3]), segid_bits + 0 * ct)>>

\* decode_chunk_id
decode_chunk_id(n_bits_for_layer_id, label) ==
  LET level == decode_level(n_bits_for_layer_id, label)
      segid_bits == level_segid_bits(n_bits_for_layer_id, level)
  IN  shr64((label \cap uint64_0x00ffffffffffffff), segid_bits)

NoDecode == [st |-> "none"]
InitGraphene == decoding = NoDecode

\* decode_label(label) and decode_chunk_id(label) of a GrapheneMetadata whose
\* info gives n_bits_for_layer_id
DecodeLabel(n_bits_for_layer_id, label) ==
  /\ decoding.st = "none"
  /\ \E pos \in {decode_chunk_position(n_bits_for_layer_id, label)} :
       decoding' = [st |-> "returned", n |-> n_bits_for_layer_id,
                    label |-> label,
                    level |-> decode_level(n_bits_for_layer_id, label),
                    x |-> pos[1], y |-> pos[2], z |-> pos[3],
                    segid |-> decode_segid(n_bits_for_layer_id, label),
                    chunk_id |-> decode_chunk_id(n_bits_for_layer_id, label)]
  /\ UNCHANGED <<storage_vars, pool_vars, listing_vars>>

\* the caller drops what the calls gave
LabelDiscard ==
  /\ decoding.st = "returned"
  /\ decoding' = NoDecode
  /\ UNCHANGED <<storage_vars, pool_vars, listing_vars>>

\* --------------------------------------------------------- specifications
\* Single-file calls of a facade without workers (n_threads = 0, which an
\* http layer forces), under every fault schedule.
InitSingle == Init /\ n_threads = 0

Next ==
  \/ \E P \in Paths, C \in Contents, method \in Methods,
        sched \in Schedules(protocol) : PutFile(P, C, method, sched)
  \/ \E P \in Paths, sched \in Schedules(protocol) : DeleteFile(P, sched)
  \/ \E P \in Paths, sched \in Schedules(protocol) : GetFile(P, sched)
  \/ \E P \in Paths, sched \in Schedules(protocol) : Exists(P, sched)
  \/ Resume

\* ... in a process with no other facade and no listing under way
InitCalls == InitSingle /\ InitPool /\ InitListing /\ InitGraphene

Spec == InitCalls /\ [][Next]_vars

\* Single and batched calls of a facade with 0..MaxThreads workers. Writes
\* store one content uncompressed; a single-file call meets no fault on the
\* caller's thread; a batched call meets faults on one path: none, one
\* failing request, or more failing requests than the retry budget covers,
\* and on HTTP also as many as the pipelined request and the retries but the
\* last make.
BatchSchedules(proto) ==
  {sched \in Schedules(proto) :
     \/ sched.n \in {0, 1, MaxFaults}
     \/ proto = "http" /\ sched.kind = "ServerError" /\ sched.n = MAX_RETRIES}
BatchFaults(proto) ==
  {[p \in Paths |-> IF p = bad THEN sched ELSE NoFault(proto)] :
     bad \in Paths, sched \in BatchSchedules(proto)}
NoFaults(proto) == [p \in Paths |-> NoFault(proto)]
\* a worker meets no fault or a transient one that outlasts the budget
WorkerSchedules(proto) ==
  {NoFault(proto),
   [n |-> MaxFaults, kind |-> IF proto = "file" THEN "IOError" ELSE "ServerError"]}
WorkerFaults(proto) ==
  {[p \in Paths |-> IF p = bad THEN sched ELSE NoFault(proto)] :
     bad \in Paths, sched \in WorkerSchedules(proto)}

\* faults are met on the caller's thread by a facade built without workers,
\* on the workers' threads by one built with workers; the caller draws them
\* for the call it starts, which it does only when idle
CallerFaults ==
  IF pc = "idle" /\ n_threads = 0 THEN BatchFaults(protocol)
  ELSE {NoFaults(protocol)}

\* the batches a caller hands over: it hands one over only when idle
CallerPaths == IF pc = "idle" THEN PathLists ELSE {}

NextBatch ==
  \/ \E P \in Paths : PutFile(P, Bytes("x"), "", NoFault(protocol))
  \/ \E paths \in CallerPaths, faults \in CallerFaults :
        PutFiles(paths, Bytes("x"), "", faults)
  \/ \E P \in Paths : DeleteFile(P, NoFault(protocol))
  \/ \E paths \in CallerPaths, faults \in CallerFaults :
        DeleteFiles(paths, faults)
  \/ \E P \in Paths : GetFile(P, NoFault(protocol))
  \/ \E P \in Paths : Exists(P, NoFault(protocol))
  \/ \E paths \in CallerPaths, faults \in CallerFaults : GetFiles(paths, faults)
  \/ \E paths \in CallerPaths, faults \in CallerFaults : FilesExist(paths, faults)
  \/ \E w \in Workers : WorkerTake(w)
  \/ \E w \in Workers, sched \in WorkerSchedules(protocol) :
        WorkerWrite(w, sched)
  \/ \E w \in Workers, faults \in WorkerFaults(protocol) : WorkerRead(w, faults)
  \/ WaitCheckErrors
  \/ KillThreads
  \/ WaitJoin
  \/ Resume

InitBatch == Init /\ InitPool /\ InitListing /\ InitGraphene

SpecBatch == InitBatch /\ [][NextBatch]_vars

\* The facades a process builds over one layer, each built once, used, and
\* closed by its context manager, by its destructor or by both, with the
\* worker threads of a Storage starting and ending on their own.
InitLifecycle ==
  /\ InitSingle
  /\ store = EmptyStore
  /\ max_streams = 1
  /\ InitPool
  /\ InitGraphene
  /\ InitListing

NextLifecycle ==
  \/ \E f \in Facades, cls \in Classes, n \in 0..MaxThreads,
        proto \in {protocol} \cup UnsupportedProtocols :
        Construct(f, cls, proto, n)
  \/ \E f \in Facades, w \in Workers : WorkerStart(f, w)
  \/ \E f \in Facades, w \in Workers : WorkerExit(f, w)
  \/ \E f \in Facades : KillOnError(f)
  \/ \E f \in Facades, how \in {"exit", "del"} : Close(f, how)
  \/ \E f \in Facades : CloseJoin(f)

SpecLifecycle == InitLifecycle /\ [][NextLifecycle]_vars

\* The listings of a layer that holds any set of the ObjectNames, which no
\* call changes, and the write calls of a read-only HTTP layer.
InitList ==
  /\ InitSingle
  /\ store = EmptyStore
  /\ max_streams = 1
  /\ InitPool
  /\ InitGraphene
  /\ objects \in (IF protocol = "http" THEN {{}} ELSE SUBSET ObjectNames)
  /\ listing = NoListing
  /\ sorting = NoSort

NextList ==
  \/ \E prefix \in Prefixes, flat \in BOOLEAN : ListFiles(prefix, flat)
  \/ \E order \in Orders(objects) : Iterate(order)
  \/ Discard
  \/ \E P \in Paths :
       protocol = "http" /\ PutFile(P, Bytes("x"), "", NoFault(protocol))
  \/ \E P \in Paths : protocol = "http" /\ DeleteFile(P, NoFault(protocol))
  \/ Resume

SpecList == InitList /\ [][NextList]_vars

\* Calls of _radix_sort on every list of up to MaxSort of the SortStrings:
\* the empty string, strings that are prefixes of others, repeats, and
\* characters with the two highest codes below 256.
MaxSort == 3
SortStrings ==
  {<<>>, <<"a">>, <<"a", "b">>, <<"b">>, <<"a", "U+00FE">>, <<"a", "U+00FF">>}
InitSort ==
  /\ InitSingle
  /\ protocol = "file"
  /\ store = EmptyStore
  /\ max_streams = 1
  /\ InitPool
  /\ InitGraphene
  /\ InitListing

NextSort ==
  \/ \E L \in SeqsUpTo(SortStrings, MaxSort) : RadixSort(L)
  \/ SortDiscard

SpecSort == InitSort /\ [][NextSort]_vars

\* The label decoder on labels of the graph's levels: every combination of
\* the bits LabelBits, which lie at the ends of the fields of the layout.
LabelBits == {0, 1, 26, 29, 36, 55, 56, 57, 58, 59}
Labels(n_bits_for_layer_id) ==
  {label \in SUBSET LabelBits :
     int64(shr64(label, 64 - n_bits_for_layer_id)) \in DOMAIN spatial_bit_masks}

InitLabel ==
  /\ InitSingle
  /\ protocol = "file"
  /\ store = EmptyStore
  /\ max_streams = 1
  /\ InitPool
  /\ InitGraphene
  /\ InitListing

NextLabel ==
  \/ \E n \in LayerIdBits : \E label \in Labels(n) : DecodeLabel(n, label)
  \/ LabelDiscard

SpecLabel == InitLabel /\ [][NextLabel]_vars

\* ------------------------------------------------------------ properties
\* the interface method behind a single-file facade call
MethodOf(op) ==
  CASE op = "put_file" -> "put"
    [] op = "get_file" -> "get"
    [] op = "delete_file" -> "delete"
    [] OTHER -> "exists"
SingleOps == {"put_file", "get_file", "delete_file", "exists"}
\* the caller has just seen a single-file call complete
ReturnedSingle == pc = "returned" /\ ret.op \in SingleOps /\ ret.threads = 0
\* ... and that call's interface method carries a retry decorator
ReturnedRetried ==
  ReturnedSingle /\ RetryPolicy(protocol, MethodOf(ret.op)) # "none"
\* no object is stored under path P
NoObject(P) == ~store[<<P, "">>].present /\ ~store[<<P, ".gz">>].present
\* what the interface method of the returned call gives when nothing fails
Unfaulted ==
  Attempt(protocol, MethodOf(ret.op), store, ret.paths[1],
          Arg(compress(ret.arg.content, ret.arg.compress), ret.arg.compress),
          NoFault(protocol), 1, conn_streams)

\* C1: on a write-capable backend, a get_file(P) that meets no failure
\* returns the content of the last completed put of P, whatever compression
\* setting that put and the earlier ones used.
C1_RoundTrip ==
  (/\ ReturnedSingle
   /\ ret.op = "get_file"
   /\ ret.sched.n = 0
   /\ protocol # "http"
   /\ lastPut[ret.paths[1]] # <<>>)
  => (ret.raised = <<>> /\ ret.value = lastPut[ret.paths[1]])

\* the set of the paths of a list
PathSet(paths) == {paths[i] : i \in 1..Len(paths)}
\* the caller has just seen the batched call `op` complete
ReturnedBatch(op) == pc = "returned" /\ ret.op = op
\* what get_file / exists of P answer on the present store when nothing fails
GetNow(P) == Call(protocol, "get", store, P, NoArg, NoFault(protocol), 0)
ExistsNow(P) == Call(protocol, "exists", store, P, NoArg, NoFault(protocol), 0)

C3_Totality ==
  /\ (ReturnedBatch("get_files") /\ ret.raised = <<>>) =>
       /\ {ret.results[i].filename : i \in 1..Len(ret.results)}
            = PathSet(ret.paths)
       /\ Len(ret.results) = Len(ret.paths)
  /\ (ReturnedBatch("files_exist") /\ ret.raised = <<>>) =>
       /\ DOMAIN ret.emap = PathSet(ret.paths)
       /\ \A P \in DOMAIN ret.emap : ret.emap[P] \in {"True", "False"}

\* a get_files of a longest batch, over both paths, at the stream limit 1 of
\* an HTTP layer has returned
C3_Witness ==
  /\ ReturnedBatch("get_files")
  /\ ret.raised = <<>>
  /\ protocol = "http"
  /\ max_streams = 1
  /\ Len(ret.paths) = MaxBatch
  /\ PathSet(ret.paths) = Paths

\* the fetch of a path under schedule sched fails beyond what the retry
\* wrapper of a cloud or HTTP backend absorbs
Exhausts(proto, sched) ==
  CASE proto \in {"gs", "s3"} -> sched.n >= MAX_RETRIES
    [] proto = "http" ->
         \/ sched.kind \in {"ClientError", "Forbidden"} /\ sched.n >= 1
         \/ sched.kind = "ServerError" /\ sched.n >= MAX_RETRIES + 1
    [] OTHER -> FALSE

\* C4: a get_files that began with no task or error pending does not raise;
\* on a cloud or HTTP backend the result of a path whose fetch failed beyond
\* the retry budget has content None and an error, and the result of every
\* path that met no failure is what its fetch gives without any failure.
C4_PartialFailureIsolation ==
  (ReturnedBatch("get_files") /\ ret.quiet) =>
    /\ ret.raised = <<>>
    /\ Len(ret.applied) = Len(ret.results)
    /\ \A i \in 1..Len(ret.results) :
         /\ Exhausts(protocol, ret.applied[i]) =>
              /\ ret.results[i].content = <<>>
              /\ ret.results[i].error # <<>>
         /\ ret.applied[i].n = 0 =>
              ret.results[i] =
                FileResult(ret.results[i].filename,
                           GetNow(ret.results[i].filename))

\* a get_files has returned one result with an error after the retry budget
\* and another with the stored content
C4_Witness ==
  /\ ReturnedBatch("get_files")
  /\ ret.raised = <<>>
  /\ \E i, j \in 1..Len(ret.results) :
       /\ ret.applied[i].kind = "ServerError"
       /\ Exhausts(protocol, ret.applied[i])
       /\ ret.results[i].error = <<"ServerError">>
       /\ ret.applied[j].n = 0
       /\ ret.results[j].content # <<>>
       /\ ret.results[j].error = <<>>

\* the existence check of a path under schedule sched raises: S3's exists
\* re-raises all but a 404, HTTP's raises a client error other than 404 / 403
\* and a server error that outlasts the retries
Escapes(proto, sched) ==
  CASE proto = "s3" -> sched.n >= 1
    [] proto = "http" ->
         \/ sched.kind = "ClientError" /\ sched.n >= 1
         \/ sched.kind = "ServerError" /\ sched.n >= MAX_RETRIES + 1
    [] OTHER -> FALSE
\* the paths of the returned batch whose check raises
Escaping == {P \in PathSet(ret.paths) : Escapes(protocol, ret.sched[P])}
\* the first index of the SDK batch that holds the i-th path
ChunkStart(i) == ((i - 1) \div MAX_BATCH_SIZE) * MAX_BATCH_SIZE + 1
\* on the Cloud-Store backend a failed sub-request raises when no missing key
\* comes before it in its SDK batch
BatchEscapes ==
  \E i \in 1..Len(ret.paths) :
    /\ ret.sched[ret.paths[i]].n >= 1
    /\ \A j \in ChunkStart(i)..(i - 1) :
         \/ ret.sched[ret.paths[j]].n >= 1
         \/ store[<<ret.paths[j], "">>].present
\* the returned files_exist met a failure that raises
FilesExistRaises ==
  IF protocol = "gs" THEN BatchEscapes ELSE Escaping # {}
\* a failed check that does not raise reads False: HTTP's 403, and the
\* Cloud-Store sub-request a missing key came before
ReadsFalse(P) ==
  /\ ret.sched[P].n >= 1
  /\ \/ protocol = "http" /\ ret.sched[P].kind = "Forbidden"
     \/ protocol = "gs"

C6_RetryBudget ==
  ReturnedRetried =>
    /\ ret.attempts <= MAX_RETRIES
    /\ (ret.sched.kind = "ServerError" /\ ret.sched.n = MAX_RETRIES - 1) =>
         /\ ret.attempts = MAX_RETRIES
         /\ ret.raised = Unfaulted.raised
         /\ ret.value = Unfaulted.value
         /\ ret.flag = Unfaulted.flag
    /\ (ret.sched.kind = "ServerError" /\ ret.sched.n >= MAX_RETRIES) =>
         /\ ret.attempts = MAX_RETRIES
         /\ ret.raised = <<"ServerError">>

\* a call that failed transiently 6 times and succeeded on its 7th attempt
C6_Witness ==
  /\ ReturnedRetried
  /\ ret.sched.kind = "ServerError"
  /\ ret.sched.n = MAX_RETRIES - 1
  /\ ret.attempts = MAX_RETRIES
  /\ ret.raised = <<>>

\* C7: a client-class error met by a retry-wrapped call is raised to the
\* caller after exactly one attempt.
C7_ClientErrorNotRetried ==
  (ReturnedRetried /\ ret.sched.kind = "ClientError" /\ ret.sched.n >= 1)
  => (ret.attempts = 1 /\ ret.raised = <<"ClientError">>)

\* C8: a transient error of a network operation reaches the caller only
\* after the 7-attempt budget is exhausted.
C8_TransientAlwaysRetried ==
  (/\ ReturnedSingle
   /\ protocol # "file"
   /\ ret.raised = <<"ServerError">>)
  => ret.attempts = MAX_RETRIES

\* C9: get_file of a path with no stored object returns None and exists
\* returns False; neither raises when nothing but the absence is wrong.
C9_NotFoundIsNotAnError ==
  (/\ ReturnedSingle
   /\ ret.op \in {"get_file", "exists"}
   /\ ret.sched.n = 0
   /\ NoObject(ret.paths[1]))
  => (ret.raised = <<>> /\ ret.value = <<>> /\ ret.flag = FALSE)

\* C10: get_file returns None only when no object is stored under the path.
C10_NullMeansAbsent ==
  (/\ ReturnedSingle
   /\ ret.op = "get_file"
   /\ ret.raised = <<>>
   /\ ret.value = <<>>)
  => NoObject(ret.paths[1])

\* C12: on a write-capable backend a delete_file of a path that holds no
\* object, meeting no failure, completes without raising and leaves the store
\* as it was, however many deletes came before it.
C12_DeleteIdempotence ==
  [][(/\ pc = "idle"
      /\ pc' = "returned"
      /\ ret'.op = "delete_file"
      /\ ret'.threads = 0
      /\ ret'.sched.n = 0
      /\ protocol # "http"
      /\ NoObject(ret'.paths[1]))
     => (ret'.raised = <<>> /\ store' = store)]_vars

\* a delete_file of a path of an empty Cloud-Store layer has returned
C12_Witness ==
  /\ ReturnedSingle
  /\ ret.op = "delete_file"
  /\ ret.sched.n = 0
  /\ protocol = "gs"
  /\ ret.raised = <<>>
  /\ store = EmptyStore
  /\ lastPut = [P \in Paths |-> <<>>]

\* C20: a facade built with zero workers never has a task on its queue, in
\* execution on a worker or in its error queue, and its caller is never
\* inside wait(); when one of its calls returns normally, the call's writes
\* or deletes have been carried out by the facade's own interface.
C20_NoWorkersNoQueue ==
  n_threads = 0 =>
    /\ queue = <<>>
    /\ \A w \in Workers : work[w] = <<>>
    /\ error_queue = <<>>
    /\ pc \in {"idle", "returned"}
    /\ (pc = "returned" /\ ret.raised = <<>>) =>
         /\ ret.threads = 0
         /\ ret.op \in {"put_file", "put_files"} =>
              \A P \in PathSet(ret.paths) :
                GetNow(P).value = <<ret.arg.content>> /\ ExistsNow(P).flag
         /\ ret.op \in {"delete_file", "delete_files"} =>
              \A P \in PathSet(ret.paths) :
                GetNow(P).value = <<>> /\ ~ExistsNow(P).flag

\* a facade without workers has returned from a put_files of both paths
C20_Witness ==
  /\ n_threads = 0
  /\ ReturnedBatch("put_files")
  /\ ret.raised = <<>>
  /\ PathSet(ret.paths) = Paths
  /\ queue = <<>>

Open(f) == facades[f].st \in {"open", "exiting", "deleting"}
\* the facade's hooks have run to their end
Closed(f) == facades[f].st \in {"exited", "deleted"}
\* the handles checked out: by an open facade's own interface or by the
\* interface of a running worker thread
Holders ==
  {<<f, 0>> : f \in {g \in Facades : Open(g) /\ Pooled(facades[g].protocol)}}
  \cup {fw \in Facades \X Workers :
          /\ Pooled(facades[fw[1]].protocol)
          /\ interfaces[fw[1]][fw[2]].st = "running"}
HandleOf(h) ==
  IF h[2] = 0 THEN facades[h[1]]._interface
  ELSE interfaces[h[1]][h[2]].handle

\* C13: every connection handle a facade acquired, its own interface's and
\* each worker's, is released to the pool exactly once over the facade's
\* life: never more than once, and once when the facade has been closed by
\* its context manager, its destructor or both, or the worker has ended.
C13_ReleasedExactlyOnce ==
  \A f \in Facades :
    Pooled(facades[f].protocol) =>
      /\ facades[f].released <= 1
      /\ Closed(f) => facades[f].released = 1
      /\ \A w \in Workers :
           /\ interfaces[f][w].released <= 1
           /\ interfaces[f][w].st = "dead" => interfaces[f][w].released = 1

\* C14: a handle is either in the pool's free list or checked out by exactly
\* one interface: no checked-out handle is in the free list, the free list
\* holds no handle twice, and no two interfaces hold the same handle.
C14_PoolCorrect ==
  /\ \A h \in Holders : \A i \in 1..Len(pool) : pool[i] # HandleOf(h)
  /\ \A i, j \in 1..Len(pool) : i # j => pool[i] # pool[j]
  /\ \A h, k \in Holders : h # k => HandleOf(h) # HandleOf(k)

\* C18: building a facade of either class on an unsupported protocol raises
\* UnsupportedProtocolError and leaves nothing behind: the facade has no
\* interface and no worker thread, and the step takes no handle from the
\* pool and makes the pool construct none.
C18_UnsupportedProtocolFails ==
  /\ [](\A f \in Facades :
          (facades[f].st # "none" /\ facades[f].protocol \notin Protocols) =>
            /\ facades[f].st = "failed"
            /\ facades[f].raised = <<"UnsupportedProtocolError">>
            /\ facades[f]._interface = NoHandle
            /\ \A w \in Workers : interfaces[f][w] = NoInterface)
  /\ [][\A f \in Facades :
          (/\ facades[f].st = "none"
           /\ facades'[f].st # "none"
           /\ facades'[f].protocol \notin Protocols)
          => (pool' = pool /\ issued' = issued /\ interfaces' = interfaces)]_vars

\* a construction on an unsupported protocol has failed beside a facade that
\* holds a handle of the pool, while a released handle waits in the pool
C18_Witness ==
  \E f, g \in Facades :
    /\ facades[f].st = "failed"
    /\ facades[f].cls = "Storage"
    /\ facades[g].st = "open"
    /\ facades[g]._interface # NoHandle
    /\ pool # <<>>

\* C11: on an HTTP layer put_file and delete_file raise NotImplementedError
\* from their one attempt, a list_files call has raised it once the call has
\* been made, and none of them sends a request or changes the served
\* resources.
C11_UnsupportedFailAtTheCall ==
  protocol = "http" =>
    /\ (pc = "returned" /\ ret.op \in {"put_file", "delete_file"}) =>
         (ret.raised = <<"NotImplementedError">> /\ ret.attempts = 1)
    /\ listing.st # "none" => listing.raised = <<"NotImplementedError">>
    /\ store = EmptyStore
    /\ conn_streams = 0

\* s <= t in the lexicographic order of the characters' ord
RECURSIVE LexLeq(_, _)
LexLeq(s, t) ==
  IF s = <<>> THEN TRUE
  ELSE IF t = <<>> THEN FALSE
  ELSE IF ord(Head(s)) # ord(Head(t)) THEN ord(Head(s)) < ord(Head(t))
  ELSE LexLeq(Tail(s), Tail(t))
Ascending(L) == \A i, j \in 1..Len(L) : i < j => LexLeq(L[i], L[j])
\* a list_files of a backend that supports listing has been iterated
Listed == listing.st = "exhausted" /\ protocol # "http"
Elements(L) == {L[n] : n \in 1..Len(L)}
\* the stored names a listing of prefix / flat is about
Under(prefix, flat) ==
  {name \in objects :
     /\ startswith(name, prefix)
     /\ flat => ~contains(SubSeq(name, Len(prefix) + 1, Len(name)), "/")}

\* C15: on the filesystem and the two cloud backends the names of a listing
\* are in ascending lexicographic order, and the listing is the same sequence
\* in whatever order the backend enumerates the stored names.
C15_ListingDeterminism ==
  Listed =>
    /\ Ascending(listing.out)
    /\ \A order \in Orders(objects) :
         Interface_list_files(protocol, order, listing.prefix,
                              listing.flat).out = listing.out

\* C16: a filesystem listing holds no name twice, and holds the name of every
\* stored name.gz it is about with the suffix stripped: name and name.gz
\* make one entry.
C16_CompressedListedOnce ==
  (Listed /\ protocol = "file") =>
    /\ \A i, j \in 1..Len(listing.out) :
         i # j => listing.out[i] # listing.out[j]
    /\ Elements(listing.out)
         = {stripgz(name) : name \in Under(listing.prefix, listing.flat)}

\* the objects a/b/c, a/b/d and a/e
ABC ==
  {<<"a", "/", "b", "/", "c">>, <<"a", "/", "b", "/", "d">>, <<"a", "/", "e">>}
\* a layer that holds exactly those has been listed under the prefix a/
ListedABC == Listed /\ objects = ABC /\ listing.prefix = <<"a", "/">>

C25_SingleWriteAttempt ==
  (ReturnedSingle /\ ret.op = "put_file" /\ protocol = "file") =>
    /\ ret.attempts = 1
    /\ ret.sched.n >= 1 => ret.raised = <<"IOError">>

\* C26: when a delete_file of P has completed on a write-capable backend,
\* exists(P) is False and get_file(P) is None, whatever the layer held before.
C26_DeletedIsAbsent ==
  (/\ ReturnedSingle
   /\ ret.op = "delete_file"
   /\ ret.raised = <<>>
   /\ protocol # "http")
  => (~ExistsNow(ret.paths[1]).flag /\ GetNow(ret.paths[1]).value = <<>>)

\* the write or delete of an item under schedule sched fails for good: the
\* cloud calls after MAX_RETRIES failing attempts, the filesystem write
\* after two, every write to an HTTP layer
WriteFails(proto, op, sched) ==
  CASE proto \in {"gs", "s3"} -> sched.n >= MAX_RETRIES
    [] proto = "file" -> op = "put_files" /\ sched.n >= 2
    [] OTHER -> TRUE
WriteError(proto, sched) ==
  IF proto = "http" THEN "NotImplementedError" ELSE sched.kind
\* the items of the returned batched write that fail for good
FailedItems ==
  {i \in 1..Len(ret.paths) :
     WriteFails(protocol, ret.op, ret.sched[ret.paths[i]])}
BatchedWrites == {"put_files", "delete_files"}

\* C21: a put_files / delete_files raises the error of the first item whose
\* operation fails for good and records nothing per item.  Without workers
\* the first failing item of the loop raises; with workers a failed task puts
\* its error on the error queue and the wait() of the batched call raises the
\* first error of that queue.
C21_BatchedWritesPropagate ==
  /\ []((pc = "returned" /\ ret.op \in BatchedWrites /\ ret.threads = 0) =>
          /\ ret.results = <<>> /\ ret.emap = EmptyMap
          /\ IF FailedItems = {} THEN ret.raised = <<>>
             ELSE \E i \in FailedItems :
                    /\ \A j \in FailedItems : i <= j
                    /\ ret.raised =
                         <<WriteError(protocol, ret.sched[ret.paths[i]])>>)
  /\ [][\A w \in Workers, sched \in WorkerSchedules(protocol) :
          (WorkerWrite(w, sched)
           /\ WriteFails(protocol, work[w][1].op \o "_files", sched))
          => error_queue' = Append(error_queue, sched.kind)]_vars
  /\ [][(/\ pc \in {"wait", "kill"}
         /\ pc' = "returned"
         /\ call.op \in BatchedWrites
         /\ error_queue # <<>>)
        => /\ ret'.raised = <<Head(error_queue)>>
           /\ ret'.results = <<>>
           /\ ret'.emap = EmptyMap]_vars

\* a put_files of both paths has raised, without workers, the error of the
\* one path whose upload failed on every attempt of the retry budget
C21_Witness ==
  /\ ReturnedBatch("put_files")
  /\ ret.threads = 0
  /\ protocol = "s3"
  /\ PathSet(ret.paths) = Paths
  /\ FailedItems # {}
  /\ ret.raised = <<"ServerError">>


\* the paths a sequence of requests checks, in order
RECURSIVE Flatten(_)
Flatten(reqs) ==
  IF reqs = <<>> THEN <<>> ELSE Head(reqs) \o Flatten(Tail(reqs))
IsPrefix(s, t) == Len(s) <= Len(t) /\ SubSeq(t, 1, Len(s)) = s

\* C22: a zero-worker files_exist on Cloud-Store sends batches that are
\* consecutive chunks of the input, each of 1..MAX_BATCH_SIZE paths and every
\* one but the last full, so that a call that returns has checked every input
\* entry in exactly one batch, missing keys or not (a call that raises has
\* checked a leading part of the input, once); on S3 it sends exactly one
\* HEAD request per input entry, in order.
C22_BatchedExistenceRequests ==
  (ReturnedBatch("files_exist") /\ ret.threads = 0) =>
    /\ protocol = "gs" =>
         /\ \A k \in 1..Len(ret.sent) :
              /\ Len(ret.sent[k]) \in 1..MAX_BATCH_SIZE
              /\ k < Len(ret.sent) => Len(ret.sent[k]) = MAX_BATCH_SIZE
         /\ IsPrefix(Flatten(ret.sent), ret.paths)
         /\ ret.raised = <<>> => Flatten(ret.sent) = ret.paths
    /\ protocol = "s3" =>
         /\ \A k \in 1..Len(ret.sent) : ret.sent[k] = <<ret.paths[k]>>
         /\ Len(ret.sent) <= Len(ret.paths)
         /\ ret.raised = <<>> => Len(ret.sent) = Len(ret.paths)

\* a Cloud-Store files_exist of a longest batch has returned after two
\* batches, the first of which reported a missing key
C22_Witness ==
  /\ ReturnedBatch("files_exist")
  /\ ret.threads = 0
  /\ protocol = "gs"
  /\ ret.raised = <<>>
  /\ Len(ret.paths) = MaxBatch
  /\ Len(ret.sent) = 2
  /\ ret.emap[ret.paths[1]] = "False"
  /\ \E P \in PathSet(ret.paths) : ret.emap[P] = "True"


\* the events of one kind among the first k entries of the returned call's log
EventsUpTo(kind, k) == {j \in 1..k : ret.sent[j][1] = kind}
IsRequest(e) == e[1] = "request"
\* the paths the pipeline requested, in the order of the requests
Requested ==
  LET reqs == SelectSeq(ret.sent, IsRequest)
  IN  [k \in 1..Len(reqs) |-> reqs[k][2]]
\* list(file_paths) as `available[-1]` / `del available[-1]` takes it
Reverse(L) == [k \in 1..Len(L) |-> L[Len(L) + 1 - k]]
ReturnedPipeline ==
  /\ pc = "returned"
  /\ ret.op \in {"get_files", "files_exist"}
  /\ protocol = "http"

\* C23: in HTTP get_files / files_exist a response is read only once the
\* input is exhausted or the transport refused a request at the stream
\* limit; a refused request is followed by the reading of a response, never by
\* another request; never more requests are in flight than the stream limit;
\* the pipeline requests the input entries once each, last entry first; and a
\* call that returns has requested every input entry and read every response.
C23_PipeKeptFull ==
  ReturnedPipeline =>
    /\ \A k \in 1..Len(ret.sent) :
         /\ ret.sent[k][1] = "response" =>
              \/ Cardinality(EventsUpTo("request", k)) = Len(ret.paths)
              \/ k > 1 /\ ret.sent[k - 1][1] = "limit"
         /\ ret.sent[k][1] = "limit" =>
              k < Len(ret.sent) /\ ret.sent[k + 1][1] = "response"
         /\ Cardinality(EventsUpTo("request", k))
              - Cardinality(EventsUpTo("response", k)) \in 0..max_streams
    /\ IsPrefix(Requested, Reverse(ret.paths))
    /\ ret.raised = <<>> =>
         /\ Requested = Reverse(ret.paths)
         /\ Cardinality(EventsUpTo("response", Len(ret.sent))) = Len(ret.paths)

\* a get_files of a longest batch has returned from an HTTP layer whose
\* transport refused a request at the stream limit
C23_Witness ==
  /\ ReturnedPipeline
  /\ ret.op = "get_files"
  /\ Len(ret.paths) = MaxBatch
  /\ max_streams = MaxStreams
  /\ EventsUpTo("limit", Len(ret.sent)) # {}


\* the requests of the retried get_file that follow the reading of the
\* response logged at k
RetriesAfter(k) ==
  {m \in 1..(Len(ret.sent) - k) :
     \A j \in 1..m : ret.sent[k + j] = <<"retry", ret.sent[k][2]>>}
\* the log entries of the responses read, in order
Responses == {k \in 1..Len(ret.sent) : ret.sent[k][1] = "response"}
\* the log entry of the i-th response read
ResponseAt(i) ==
  CHOOSE k \in Responses : Cardinality({j \in Responses : j <= k}) = i

\* C24: in HTTP get_files the item whose pipelined response is a server
\* error, and no other, is requested again by get_file: as often as it takes
\* to get an answer that is no server error and at most MAX_RETRIES times.
\* Its result is what that answer gives (the content, or None with the
\* client error), or None with the server error when all MAX_RETRIES requests
\* failed; the call does not raise and every other item has its result.
C24_ServerErrorRetriesSameItem ==
  (ReturnedPipeline /\ ret.op = "get_files") =>
    /\ ret.raised = <<>>
    /\ Len(ret.results) = Len(ret.paths)
    /\ Cardinality(Responses) = Len(ret.results)
    /\ \A k \in 1..Len(ret.sent) :
         ret.sent[k][1] = "retry" =>
           /\ k > 1
           /\ ret.sent[k - 1][1] \in {"response", "retry"}
           /\ ret.sent[k - 1][2] = ret.sent[k][2]
    /\ \A i \in 1..Len(ret.results) :
         LET P == ret.results[i].filename
             sched == ret.sched[P]
             retries == Cardinality(RetriesAfter(ResponseAt(i)))
         IN  /\ ret.sent[ResponseAt(i)][2] = P
             /\ retries <= MAX_RETRIES
             /\ IF sched.kind = "ServerError" /\ sched.n >= 1
                  THEN IF sched.n <= MAX_RETRIES
                         THEN /\ retries = sched.n
                              /\ ret.results[i] = FileResult(P, GetNow(P))
                         ELSE /\ retries = MAX_RETRIES
                              /\ ret.results[i].content = <<>>
                              /\ ret.results[i].error = <<"ServerError">>
                  ELSE retries = 0

\* a get_files over both paths has returned from an HTTP layer: one path's
\* pipelined response and all the retries but the last were server errors
\* and its result has the content; the other path's result is there too
C24_Witness ==
  /\ ReturnedPipeline
  /\ ret.op = "get_files"
  /\ PathSet(ret.paths) = Paths
  /\ \E i \in 1..Len(ret.results) :
       /\ ret.sched[ret.results[i].filename].kind = "ServerError"
       /\ ret.sched[ret.results[i].filename].n = MAX_RETRIES
       /\ Cardinality(RetriesAfter(ResponseAt(i))) = MAX_RETRIES
       /\ ret.results[i].content # <<>>


\* what exists(P) gives on the present store when every request about P is
\* answered as the returned batch's schedule of P says
ExistsUnder(P) ==
  Call(protocol, "exists", store, P, NoArg, ret.sched[P], 0)
\* every path of the returned batch is answered the same way whenever it is
\* asked about: never a failure, or a failure each time
Persistent ==
  \A P \in PathSet(ret.paths) : ret.sched[P].n \in {0, MaxFaults}

\* C27: a zero-worker files_exist agrees with exists path by path: when it
\* returns, exists of each input path returns the same boolean under the same
\* answers of the backend; when it raises, exists of some input path raises
\* that error.
C27_BatchedAgreesWithSingle ==
  (ReturnedBatch("files_exist") /\ ret.threads = 0 /\ Persistent) =>
    IF ret.raised = <<>>
      THEN \A P \in PathSet(ret.paths) :
             /\ ExistsUnder(P).raised = <<>>
             /\ ret.emap[P] = Bool(ExistsUnder(P).flag)
      ELSE \E P \in PathSet(ret.paths) : ExistsUnder(P).raised = ret.raised


\* the handles facade f holds checked out: its own interface's and those of
\* its running worker threads
HeldBy(f) == {h \in Holders : h[1] = f}

\* C28: a Storage built on an HTTP layer runs with zero workers whatever
\* n_threads was requested: no worker thread of it is ever started, so while
\* it is open the one handle checked out for it is that of the interface its
\* constructor took, and the construction takes or makes just that one handle.
C28_HttpRunsWithoutWorkers ==
  /\ [](\A f \in Facades :
          (facades[f].cls = "Storage" /\ facades[f].protocol = "http") =>
            /\ facades[f].n_threads = 0
            /\ \A w \in Workers : interfaces[f][w] = NoInterface
            /\ Open(f) => /\ HeldBy(f) = {<<f, 0>>}
                          /\ facades[f]._interface # NoHandle)
  /\ [][\A f \in Facades :
          (/\ facades[f].st = "none"
           /\ facades'[f].cls = "Storage"
           /\ facades'[f].protocol = "http")
          => Len(pool) + (issued' - issued) = Len(pool') + 1]_vars

\* a Storage asked for MaxThreads workers is open on an HTTP layer beside
\* another open facade
C28_Witness ==
  \E f, g \in Facades :
    /\ f # g
    /\ facades[f].cls = "Storage"
    /\ facades[f].protocol = "http"
    /\ facades[f].requested = MaxThreads
    /\ facades[f].st = "open"
    /\ Open(g)


\* how often s occurs in L
Count(L, s) == Cardinality({n \in 1..Len(L) : L[n] = s})

\* C29: _radix_sort returns, for every list, a permutation of the list in
\* ascending order of the characters' codes, a string before every longer
\* string it is a prefix of.
C29_RadixSortSorts ==
  sorting.st = "returned" =>
    /\ sorting.raised = <<>>
    /\ Len(sorting.out) = Len(sorting.L)
    /\ \A s \in Elements(sorting.L) : Count(sorting.out, s) = Count(sorting.L, s)
    /\ Ascending(sorting.out)


\* C30: every name of a listing, joined to the layer path, is the key of a
\* stored object under layer path + prefix, or on the filesystem that key
\* less its .gz suffix.
C30_ListedNamesAreRelative ==
  Listed =>
    \A n \in 1..Len(listing.out) :
      \E name \in objects :
        /\ startswith(layer_path \o name, layer_path \o listing.prefix)
        /\ \/ layer_path \o listing.out[n] = layer_path \o name
           \/ /\ protocol = "file"
              /\ layer_path \o listing.out[n] \o <<".", "g", "z">>
                   = layer_path \o name


\* the w-bit field of a label whose lowest bit is bit lo
Field(a, lo, w) == {i - lo : i \in {j \in a : j >= lo /\ j < lo + w}}
\* a + b modulo 2^64: a carry enters bit i when some lower bit is set in both
\* and every bit between is set in one; the carry out of bit 63 is lost
CarryInto(a, b, i) ==
  \E j \in 0..(i - 1) :
    j \in a /\ j \in b /\ \A k \in (j + 1)..(i - 1) : k \in a \/ k \in b
add64(a, b) == {i \in Bits : ((i \in a) # (i \in b)) # CarryInto(a, b, i)}
\* the layout of the decoded label: ct spatial bits per axis at its level, s
\* segid bits
LayoutLevel == Field(decoding.label, 64 - decoding.n, decoding.n)
LayoutCt == spatial_bit_masks[int64(LayoutLevel)]
LayoutS == 64 - decoding.n - 3 * LayoutCt
Decoded == decoding.st = "returned"
LevelIsTopBits == decoding.level = LayoutLevel
XYZAreNextFields ==
  /\ decoding.x = Field(decoding.label, LayoutS + 2 * LayoutCt, LayoutCt)
  /\ decoding.y = Field(decoding.label, LayoutS + LayoutCt, LayoutCt)
  /\ decoding.z = Field(decoding.label, LayoutS, LayoutCt)
SegidIsLowBits == decoding.segid = Field(decoding.label, 0, LayoutS)
ChunkIdIsBetween ==
  decoding.chunk_id = Field(decoding.label, LayoutS, 3 * LayoutCt)
FieldsSumToLabel ==
  \E zs \in {add64(shl64(decoding.z, LayoutS), decoding.segid)} :
  \E yzs \in {add64(shl64(decoding.y, LayoutS + LayoutCt), zs)} :
  \E xyzs \in {add64(shl64(decoding.x, LayoutS + 2 * LayoutCt), yzs)} :
    add64(shl64(decoding.level, 64 - decoding.n), xyzs) = decoding.label

\* C31: a decoded label is split by the layout layer | X | Y | Z | segid: the
\* level is the top n bits, x, y, z the next three ct-bit fields, the segid the
\* low s bits, the chunk id the bits between the layer field and the segid
\* field, and the fields put back at their places sum to the label modulo 2^64.
C31_LabelSplitsByLayout ==
  Decoded =>
    /\ LevelIsTopBits
    /\ XYZAreNextFields
    /\ SegidIsLowBits
    /\ ChunkIdIsBetween
    /\ FieldsSumToLabel

====
